---- MODULE Spec2Model ----
(***************************************************************************)
(* State-machine model of the Jupyter notebook editor tool server          *)
(* (jupyter_editor/server.py).  Every ipynb_* tool is a wrapper that calls *)
(* the operations layer inside a try block and converts what comes back    *)
(* (a value or an exception) into a result mapping.                        *)
(*                                                                         *)
(* The wrappers are translated from server.py.  The operations layer       *)
(* (jupyter_editor/operations.py) is not part of the available sources;    *)
(* its functions are modelled from the specification's section 4 and from  *)
(* the tool documentation in server.py.                                    *)
(*                                                                         *)
(* The server runs one call at a time (Step, Respond).  SpecRace is the    *)
(* exception: there two handlers run tools with their steps interleaved,   *)
(* as a transport that dispatches calls concurrently makes them.           *)
(*                                                                         *)
(* Representation:                                                         *)
(*   - a cell source is a sequence of characters, <<"a","b">> for "ab";    *)
(*   - an optional value (Python None or a value) is a sequence of length  *)
(*     at most one, <<>> for None;                                         *)
(*   - an error message built by an f-string is the record                 *)
(*     [fmt |-> the literal text, arg |-> the interpolated value].         *)
(***************************************************************************)
EXTENDS Integers, Sequences, FiniteSets, TLC

VARIABLES
    store,    \* the file system: path -> file
    call,     \* the tool call that produced the current state
    result,   \* the mapping that call returned
    raised,   \* what the operations layer raised inside that call ("none" if nothing)
    pre,      \* the file system as it was when that call started
    undo,     \* the last successful insertion, while the next call may still undo it
    handlers  \* the tool calls in progress when calls are dispatched concurrently

vars == <<store, call, result, raised, pre, undo, handlers>>

(***************************************************************************)
(* Bounds of the model.                                                    *)
(***************************************************************************)
MaxCells == 3

(***************************************************************************)
(* Paths.  NB holds a notebook, BAD holds a file that is not a notebook,   *)
(* GONE does not exist.                                                    *)
(***************************************************************************)
NB == "nb.ipynb"
BAD == "bad.ipynb"
GONE == "gone.ipynb"
Paths == {NB, BAD, GONE}

None == <<>>
Some(v) == <<v>>

(***************************************************************************)
(* Data model (spec section 3).                                            *)
(***************************************************************************)
VALID_CELL_TYPES == {"code", "markdown", "raw"}

EmptyMeta == [k \in {} |-> ""]

\* A cell as nbformat's new_code_cell / new_markdown_cell / new_raw_cell make it.
new_cell(cell_type, content) ==
    [cell_type |-> cell_type, source |-> content, metadata |-> EmptyMeta,
     outputs |-> <<>>, execution_count |-> None]

Notebook(cells, metadata) == [kind |-> "notebook", cells |-> cells, metadata |-> metadata]
Corrupt == [kind |-> "corrupt", cells |-> <<>>, metadata |-> EmptyMeta]
Missing == [kind |-> "missing", cells |-> <<>>, metadata |-> EmptyMeta]

(***************************************************************************)
(* Python list semantics used by the operations layer.                     *)
(***************************************************************************)
\* cells[i]: defined for -N <= i <= N-1.
InRange(n, i) == -n <= i /\ i <= n - 1

\* The 0-based position cells[i] addresses.
Resolve(n, i) == IF i < 0 THEN n + i ELSE i

\* list.insert(i, x): a negative i counts from the end, and i is clamped to 0..N.
InsertPos(n, i) ==
    LET j == IF i < 0 THEN n + i ELSE i
    IN  IF j < 0 THEN 0 ELSE IF j > n THEN n ELSE j

\* The list with x inserted so that it ends up at 0-based position p.
ListInsert(s, p, x) == SubSeq(s, 1, p) \o <<x>> \o SubSeq(s, p + 1, Len(s))

\* The list without the element at 0-based position p.
ListDelete(s, p) == SubSeq(s, 1, p) \o SubSeq(s, p + 2, Len(s))

(***************************************************************************)
(* Outcome of a call into the operations layer: a value and the file       *)
(* system it leaves, or an exception (the file system as it was).          *)
(***************************************************************************)
Return(st, v) == [exc |-> "none", msg |-> "", store |-> st, ret |-> v]
Raise(st, kind, msg) == [exc |-> kind, msg |-> msg, store |-> st, ret |-> None]

\* The result mapping of a failed tool call: {"error": f"<fmt>{arg}"}.
Error(fmt, arg) == [error |-> [fmt |-> fmt, arg |-> arg]]

\* What a tool call leaves: the file system, the mapping returned to the caller
\* and, for the record, what the operations layer raised.
Reply(st, res, exc) == [store |-> st, result |-> res, raised |-> exc]

(***************************************************************************)
(* Operations layer: document store access.                                *)
(***************************************************************************)
read_notebook_file(st, path) ==
    CASE st[path].kind = "missing" -> Raise(st, "FileNotFoundError", path)
      [] st[path].kind = "corrupt" -> Raise(st, "NotJSONError", "Notebook does not appear to be JSON")
      [] OTHER -> Return(st, st[path])

write_notebook_file(st, path, nb) == [st EXCEPT ![path] = nb]

(***************************************************************************)
(* Operations layer: single-cell operations (spec section 4.1).            *)
(***************************************************************************)
get_cell_content(st, path, cell_index) ==
    LET r == read_notebook_file(st, path)
    IN  IF r.exc # "none" THEN r
        ELSE IF ~InRange(Len(r.ret.cells), cell_index)
             THEN Raise(st, "IndexError", "list index out of range")
             ELSE Return(st, r.ret.cells[Resolve(Len(r.ret.cells), cell_index) + 1].source)

replace_cell_content(st, path, cell_index, new_content) ==
    LET r == read_notebook_file(st, path)
    IN  IF r.exc # "none" THEN r
        ELSE IF ~InRange(Len(r.ret.cells), cell_index)
             THEN Raise(st, "IndexError", "list index out of range")
             ELSE LET p  == Resolve(Len(r.ret.cells), cell_index) + 1
                      nb == [r.ret EXCEPT !.cells[p].source = new_content]
                  IN  Return(write_notebook_file(st, path, nb), None)

insert_cell(st, path, cell_index, content, cell_type) ==
    LET r == read_notebook_file(st, path)
    IN  IF r.exc # "none" THEN r
        ELSE IF cell_type \notin VALID_CELL_TYPES
             THEN Raise(st, "ValueError", "Invalid cell type")
             ELSE LET p  == InsertPos(Len(r.ret.cells), cell_index)
                      nb == [r.ret EXCEPT !.cells = ListInsert(@, p, new_cell(cell_type, content))]
                  IN  Return(write_notebook_file(st, path, nb), None)

append_cell(st, path, content, cell_type) ==
    LET r == read_notebook_file(st, path)
    IN  IF r.exc # "none" THEN r
        ELSE IF cell_type \notin VALID_CELL_TYPES
             THEN Raise(st, "ValueError", "Invalid cell type")
             ELSE LET nb == [r.ret EXCEPT !.cells = Append(@, new_cell(cell_type, content))]
                  IN  Return(write_notebook_file(st, path, nb), None)

delete_cell(st, path, cell_index) ==
    LET r == read_notebook_file(st, path)
    IN  IF r.exc # "none" THEN r
        ELSE IF ~InRange(Len(r.ret.cells), cell_index)
             THEN Raise(st, "IndexError", "list index out of range")
             ELSE LET p  == Resolve(Len(r.ret.cells), cell_index)
                      nb == [r.ret EXCEPT !.cells = ListDelete(@, p)]
                  IN  Return(write_notebook_file(st, path, nb), None)

\* Whether sub occurs in s starting at (1-based) position k.
OccursAt(s, sub, k) ==
    /\ k >= 1
    /\ k + Len(sub) - 1 <= Len(s)
    /\ SubSeq(s, k, k + Len(sub) - 1) = sub

\* str.count(sub): the number of non-overlapping occurrences, scanning from position k.
RECURSIVE CountFrom(_, _, _)
CountFrom(s, sub, k) ==
    IF k + Len(sub) - 1 > Len(s) THEN 0
    ELSE IF OccursAt(s, sub, k) THEN 1 + CountFrom(s, sub, k + Len(sub))
    ELSE CountFrom(s, sub, k + 1)

StrCount(s, sub) == CountFrom(s, sub, 1)

\* str.replace(old, new) on a string that holds old: the first occurrence replaced.
ReplaceFirst(s, old, new) ==
    LET k == CHOOSE j \in 1..Len(s) :
                 OccursAt(s, old, j) /\ \A h \in 1..(j - 1) : ~OccursAt(s, old, h)
    IN  SubSeq(s, 1, k - 1) \o new \o SubSeq(s, k + Len(old), Len(s))

str_replace_in_cell(st, path, cell_index, old_str, new_str) ==
    LET r == read_notebook_file(st, path)
    IN  IF r.exc # "none" THEN r
        ELSE IF ~InRange(Len(r.ret.cells), cell_index)
             THEN Raise(st, "IndexError", "list index out of range")
             ELSE LET p == Resolve(Len(r.ret.cells), cell_index) + 1
                      n == StrCount(r.ret.cells[p].source, old_str)
                  IN  CASE n = 0 -> Raise(st, "ValueError", "String not found")
                        [] n > 1 -> Raise(st, "ValueError", "Multiple matches")
                        [] OTHER ->
                            LET nb == [r.ret EXCEPT !.cells[p].source =
                                           ReplaceFirst(@, old_str, new_str)]
                            IN  Return(write_notebook_file(st, path, nb), None)

(***************************************************************************)
(* Operations layer: metadata.  cell_index is None (notebook level) or     *)
(* Some(i) (the metadata of cell i).                                       *)
(***************************************************************************)
\* dict.update: the keys of m overwrite, the other keys stay.
DictUpdate(old, m) ==
    [k \in DOMAIN old \cup DOMAIN m |-> IF k \in DOMAIN m THEN m[k] ELSE old[k]]

get_metadata(st, path, cell_index) ==
    LET r == read_notebook_file(st, path)
    IN  IF r.exc # "none" THEN r
        ELSE IF cell_index = None THEN Return(st, r.ret.metadata)
        ELSE IF ~InRange(Len(r.ret.cells), cell_index[1])
             THEN Raise(st, "IndexError", "list index out of range")
             ELSE Return(st, r.ret.cells[Resolve(Len(r.ret.cells), cell_index[1]) + 1].metadata)

update_metadata(st, path, metadata, cell_index) ==
    LET r == read_notebook_file(st, path)
    IN  IF r.exc # "none" THEN r
        ELSE IF cell_index = None
             THEN LET nb == [r.ret EXCEPT !.metadata = DictUpdate(@, metadata)]
                  IN  Return(write_notebook_file(st, path, nb), None)
        ELSE IF ~InRange(Len(r.ret.cells), cell_index[1])
             THEN Raise(st, "IndexError", "list index out of range")
             ELSE LET p  == Resolve(Len(r.ret.cells), cell_index[1]) + 1
                      nb == [r.ret EXCEPT !.cells[p].metadata = DictUpdate(@, metadata)]
                  IN  Return(write_notebook_file(st, path, nb), None)

(***************************************************************************)
(* Operations layer: batch operations on the cells of one notebook (spec   *)
(* section 4.3).  Each loads the notebook once, works on the loaded cells  *)
(* and writes once at the end; an exception on the way leaves the file as  *)
(* it was.                                                                 *)
(***************************************************************************)
\* The outcome of a loop over the loaded cells: the cells, or the exception raised.
Done(cells) == [exc |-> "none", msg |-> "", cells |-> cells]
Failed(kind, msg) == [exc |-> kind, msg |-> msg, cells |-> <<>>]

\* The first element of the list s that is not in range for n cells.
FirstOutOfRange(n, s) ==
    s[CHOOSE k \in 1..Len(s) :
         /\ ~InRange(n, s[k])
         /\ \A h \in 1..(k - 1) : InRange(n, s[h])]

RECURSIVE ReplaceEach(_, _)
\* for r in replacements: cells[r['cell_index']]['source'] = r['content']
ReplaceEach(cells, replacements) ==
    IF replacements = <<>> THEN cells
    ELSE LET r == Head(replacements)
             p == Resolve(Len(cells), r.cell_index) + 1
         IN  ReplaceEach([cells EXCEPT ![p].source = r.content], Tail(replacements))

replace_cells_batch(st, path, replacements) ==
    LET r == read_notebook_file(st, path)
    IN  IF r.exc # "none" THEN r
        ELSE LET n   == Len(r.ret.cells)
                 idx == [k \in 1..Len(replacements) |-> replacements[k].cell_index]
             IN  IF \E k \in 1..Len(idx) : ~InRange(n, idx[k])
                 THEN Raise(st, "IndexError", ToString(FirstOutOfRange(n, idx)))
                 ELSE LET nb == [r.ret EXCEPT !.cells = ReplaceEach(@, replacements)]
                      IN  Return(write_notebook_file(st, path, nb), None)

RECURSIVE SortedDescending(_)
\* sorted(indices, reverse=True)
SortedDescending(s) ==
    IF s = <<>> THEN <<>>
    ELSE LET m == CHOOSE k \in 1..Len(s) : \A h \in 1..Len(s) : s[k] >= s[h]
         IN  <<s[m]>> \o SortedDescending(SubSeq(s, 1, m - 1) \o SubSeq(s, m + 1, Len(s)))

RECURSIVE DeleteEach(_, _)
\* for i in indices: del cells[i]
DeleteEach(cells, indices) ==
    IF indices = <<>> THEN Done(cells)
    ELSE IF ~InRange(Len(cells), Head(indices))
         THEN Failed("IndexError", "list assignment index out of range")
         ELSE DeleteEach(ListDelete(cells, Resolve(Len(cells), Head(indices))), Tail(indices))

\* Every index is checked against the loaded document, then the cells are deleted
\* from the highest index to the lowest.
delete_cells_batch(st, path, cell_indices) ==
    LET r == read_notebook_file(st, path)
    IN  IF r.exc # "none" THEN r
        ELSE LET n == Len(r.ret.cells)
             IN  IF \E k \in 1..Len(cell_indices) : ~InRange(n, cell_indices[k])
                 THEN Raise(st, "IndexError", ToString(FirstOutOfRange(n, cell_indices)))
                 ELSE LET d == DeleteEach(r.ret.cells, SortedDescending(cell_indices))
                      IN  IF d.exc # "none" THEN Raise(st, d.exc, d.msg)
                          ELSE Return(write_notebook_file(st, path,
                                          [r.ret EXCEPT !.cells = d.cells]), None)

RECURSIVE InsertEach(_, _)
\* for ins in insertions: cells.insert(ins['cell_index'], new cell), in the order given
InsertEach(cells, insertions) ==
    IF insertions = <<>> THEN Done(cells)
    ELSE LET ins == Head(insertions)
         IN  IF ins.cell_type \notin VALID_CELL_TYPES
             THEN Failed("ValueError", "Invalid cell type")
             ELSE InsertEach(ListInsert(cells, InsertPos(Len(cells), ins.cell_index),
                                        new_cell(ins.cell_type, ins.content)),
                             Tail(insertions))

insert_cells_batch(st, path, insertions) ==
    LET r == read_notebook_file(st, path)
    IN  IF r.exc # "none" THEN r
        ELSE LET d == InsertEach(r.ret.cells, insertions)
             IN  IF d.exc # "none" THEN Raise(st, d.exc, d.msg)
                 ELSE Return(write_notebook_file(st, path, [r.ret EXCEPT !.cells = d.cells]),
                             None)

\* new_order holds every index 0..n-1 exactly once.
IsPermutation(n, new_order) ==
    /\ Len(new_order) = n
    /\ {new_order[k] : k \in 1..Len(new_order)} = 0..(n - 1)

reorder_cells(st, path, new_order) ==
    LET r == read_notebook_file(st, path)
    IN  IF r.exc # "none" THEN r
        ELSE IF ~IsPermutation(Len(r.ret.cells), new_order)
             THEN Raise(st, "ValueError", "Invalid order")
             ELSE LET nb == [r.ret EXCEPT !.cells =
                                [k \in 1..Len(new_order) |-> @[new_order[k] + 1]]]
                  IN  Return(write_notebook_file(st, path, nb), None)

\* re.search(pattern, source) for a pattern without metacharacters.
Matches(pattern, source) == \E j \in 1..Len(source) : OccursAt(source, pattern, j)

\* cell_type and pattern are None or Some(value); a criterion that is None holds.
Keeps(cell, cell_type, pattern) ==
    /\ cell_type # None => cell.cell_type = cell_type[1]
    /\ pattern # None => Matches(pattern[1], cell.source)

filter_cells(st, path, cell_type, pattern) ==
    LET r == read_notebook_file(st, path)
    IN  IF r.exc # "none" THEN r
        ELSE LET Keep(c) == Keeps(c, cell_type, pattern)
                 nb == [r.ret EXCEPT !.cells = SelectSeq(@, Keep)]
             IN  Return(write_notebook_file(st, path, nb), None)

(***************************************************************************)
(* Operations layer: operations on several notebooks (spec section 4.4).   *)
(***************************************************************************)
\* The markdown cell that names the input whose cells follow it.
SeparatorCell(path) == new_cell("markdown", <<"# ", path>>)

RECURSIVE MergeEach(_, _, _, _)
\* The inputs are loaded in the order listed and their cells appended to the cells
\* merged so far, each block after its separator when separators are asked for.
MergeEach(st, cells, inputs, add_separators) ==
    IF inputs = <<>> THEN Done(cells)
    ELSE LET r == read_notebook_file(st, Head(inputs))
         IN  IF r.exc # "none" THEN Failed(r.exc, r.msg)
             ELSE MergeEach(st,
                            cells \o (IF add_separators THEN <<SeparatorCell(Head(inputs))>>
                                      ELSE <<>>) \o r.ret.cells,
                            Tail(inputs), add_separators)

\* The output takes the metadata of the first input.
merge_notebooks(st, output, inputs, add_separators) ==
    LET d == MergeEach(st, <<>>, inputs, add_separators)
    IN  IF d.exc # "none" THEN Raise(st, d.exc, d.msg)
        ELSE Return(write_notebook_file(st, output,
                        Notebook(d.cells, read_notebook_file(st, inputs[1]).ret.metadata)),
                    None)

\* The notebook's kernelspec becomes the mapping of the three values given; the
\* other metadata keys and the cells stay.
set_kernel_spec(st, path, kernel_name, display_name, language) ==
    LET r == read_notebook_file(st, path)
        kernelspec == [name |-> kernel_name, display_name |-> display_name,
                       language |-> language]
    IN  IF r.exc # "none" THEN r
        ELSE Return(write_notebook_file(st, path,
                        [r.ret EXCEPT !.metadata = DictUpdate(@, [kernelspec |-> kernelspec])]),
                    None)

\* Code cells lose their outputs and their execution count; other cells stay.
clear_outputs(st, path) ==
    LET r == read_notebook_file(st, path)
    IN  IF r.exc # "none" THEN r
        ELSE Return(write_notebook_file(st, path,
                        [r.ret EXCEPT !.cells =
                            [k \in 1..Len(@) |->
                                IF @[k].cell_type = "code"
                                THEN [@[k] EXCEPT !.outputs = <<>>, !.execution_count = None]
                                ELSE @[k]]]),
                    None)

APPLY_OPERATIONS == {"set_kernel", "clear_outputs", "update_metadata"}

\* One named operation on one path.
ApplyOne(st, path, operation, params) ==
    CASE operation = "set_kernel" ->
             set_kernel_spec(st, path, params.kernel_name, params.display_name,
                             IF "language" \in DOMAIN params THEN params.language
                             ELSE "python")
      [] operation = "clear_outputs" -> clear_outputs(st, path)
      [] OTHER -> update_metadata(st, path, params.metadata, None)

RECURSIVE ApplyEach(_, _, _, _, _)
\* The operation is tried on every path in turn; a path on which it raises is
\* recorded as False and the others go on.  results is keyed by path.
ApplyEach(st, results, paths, operation, params) ==
    IF paths = <<>> THEN Return(st, results)
    ELSE LET o == ApplyOne(st, Head(paths), operation, params)
             entry == [q \in {Head(paths)} |-> o.exc = "none"]
         IN  ApplyEach(o.store, DictUpdate(results, entry), Tail(paths), operation, params)

\* An operation name outside the fixed set fails the call before any path is touched.
apply_operation_to_notebooks(st, paths, operation, params) ==
    IF operation \notin APPLY_OPERATIONS
    THEN Raise(st, "ValueError", "Unknown operation")
    ELSE ApplyEach(st, [q \in {} |-> TRUE], paths, operation, params)

RECURSIVE SubAll(_, _, _)
\* re.subn(pattern, replacement, s) for a pattern without special characters:
\* every non-overlapping occurrence, left to right, is replaced; the outcome is
\* the new string and the number of replacements.
SubAll(s, pattern, replacement) ==
    IF pattern = <<>> \/ Len(s) < Len(pattern) THEN [text |-> s, count |-> 0]
    ELSE IF OccursAt(s, pattern, 1)
         THEN LET r == SubAll(SubSeq(s, Len(pattern) + 1, Len(s)), pattern, replacement)
              IN  [text |-> replacement \o r.text, count |-> r.count + 1]
         ELSE LET r == SubAll(Tail(s), pattern, replacement)
              IN  [text |-> <<Head(s)>> \o r.text, count |-> r.count]

RECURSIVE SumCounts(_, _, _, _)
SumCounts(cells, pattern, replacement, cell_type) ==
    IF cells = <<>> THEN 0
    ELSE (IF cell_type = None \/ cell_type = Some(Head(cells).cell_type)
          THEN SubAll(Head(cells).source, pattern, replacement).count
          ELSE 0)
         + SumCounts(Tail(cells), pattern, replacement, cell_type)

\* The substitution is applied to the source of every cell whose type passes the
\* optional filter; the total number of replacements is returned.
search_replace_all(st, path, pattern, replacement, cell_type) ==
    LET r == read_notebook_file(st, path)
    IN  IF r.exc # "none" THEN r
        ELSE LET cells == [k \in 1..Len(r.ret.cells) |->
                              IF cell_type = None \/ cell_type = Some(r.ret.cells[k].cell_type)
                              THEN [r.ret.cells[k] EXCEPT
                                        !.source = SubAll(@, pattern, replacement).text]
                              ELSE r.ret.cells[k]]
             IN  Return(write_notebook_file(st, path, [r.ret EXCEPT !.cells = cells]),
                        SumCounts(r.ret.cells, pattern, replacement, cell_type))

(***************************************************************************)
(* Operations layer: the same change on several notebooks.                 *)
(***************************************************************************)
RECURSIVE SyncEach(_, _, _, _)
\* Each path in turn is loaded, given its new metadata and written.  With merge
\* the given mapping is laid over the stored one key by key (dict.update);
\* without it the given mapping replaces the stored one.
SyncEach(st, paths, metadata, merge) ==
    IF paths = <<>> THEN Return(st, None)
    ELSE LET r == read_notebook_file(st, Head(paths))
         IN  IF r.exc # "none" THEN r
             ELSE SyncEach(write_notebook_file(st, Head(paths),
                               [r.ret EXCEPT !.metadata =
                                   IF merge THEN DictUpdate(@, metadata) ELSE metadata]),
                           Tail(paths), metadata, merge)

sync_metadata_across_notebooks(st, paths, metadata, merge) == SyncEach(st, paths, metadata, merge)

\* The argument of clear_outputs is one path, [str |-> path], or a list of paths,
\* [list |-> paths]; it is normalised to a list.
IsStr(ipynb_filepaths) == DOMAIN ipynb_filepaths = {"str"}
AsList(ipynb_filepaths) ==
    IF IsStr(ipynb_filepaths) THEN <<ipynb_filepaths.str>> ELSE ipynb_filepaths.list

RECURSIVE ClearEach(_, _)
ClearEach(st, paths) ==
    IF paths = <<>> THEN Return(st, None)
    ELSE LET o == clear_outputs(st, Head(paths))
         IN  IF o.exc # "none" THEN o ELSE ClearEach(o.store, Tail(paths))

\* clear_outputs as the tool calls it, with one path or a list of them.
clear_outputs_paths(st, ipynb_filepaths) == ClearEach(st, AsList(ipynb_filepaths))

(***************************************************************************)
(* Operations layer: queries.  None of them writes.                        *)
(***************************************************************************)
\* The number of cells of each type present in the document.
CellTypeCounts(cells) ==
    [ty \in {cells[k].cell_type : k \in 1..Len(cells)} |->
        Cardinality({k \in 1..Len(cells) : cells[k].cell_type = ty})]

\* The kernel named by the document's metadata, if it names one.
KernelInfo(nb) ==
    IF "kernelspec" \in DOMAIN nb.metadata THEN Some(nb.metadata.kernelspec) ELSE None

get_notebook_summary(st, path) ==
    LET r == read_notebook_file(st, path)
    IN  IF r.exc # "none" THEN r
        ELSE Return(st, [cell_count |-> Len(r.ret.cells),
                         cell_types |-> CellTypeCounts(r.ret.cells),
                         kernel_info |-> KernelInfo(r.ret)])

\* One entry per cell, in order; the sources of the model are shorter than the
\* preview length, so the preview is the source.
list_all_cells(st, path) ==
    LET r == read_notebook_file(st, path)
    IN  IF r.exc # "none" THEN r
        ELSE Return(st, [k \in 1..Len(r.ret.cells) |->
                            [index |-> k - 1, type |-> r.ret.cells[k].cell_type,
                             preview |-> r.ret.cells[k].source,
                             execution_count |-> r.ret.cells[k].execution_count]])

RECURSIVE MatchesIn(_, _, _, _)
\* One result per match of the pattern, cell after cell (cells[k] has index
\* first + k - 1); the context of a match in a source this short is the source.
MatchesIn(cells, first, pattern, with_context) ==
    IF cells = <<>> THEN <<>>
    ELSE LET hit == IF with_context
                    THEN [cell_index |-> first, cell_type |-> Head(cells).cell_type,
                          match |-> pattern, context |-> Some(Head(cells).source)]
                    ELSE [cell_index |-> first, cell_type |-> Head(cells).cell_type,
                          match |-> pattern, context |-> None]
         IN  [k \in 1..StrCount(Head(cells).source, pattern) |-> hit]
             \o MatchesIn(Tail(cells), first + 1, pattern, with_context)

\* The sources of the model are in lower case, so that the search finds the same
\* matches with and without case_sensitive.
search_cells(st, path, pattern, case_sensitive) ==
    LET r == read_notebook_file(st, path)
    IN  IF r.exc # "none" THEN r
        ELSE Return(st, MatchesIn(r.ret.cells, 0, pattern, TRUE))

RECURSIVE SearchEach(_, _, _, _, _)
SearchEach(st, found, paths, pattern, return_context) ==
    IF paths = <<>> THEN Return(st, found)
    ELSE LET r == read_notebook_file(st, Head(paths))
         IN  IF r.exc # "none" THEN r
             ELSE LET hits == MatchesIn(r.ret.cells, 0, pattern, return_context)
                  IN  SearchEach(st,
                                 found \o [k \in 1..Len(hits) |->
                                              [filepath |-> Head(paths),
                                               cell_index |-> hits[k].cell_index,
                                               cell_type |-> hits[k].cell_type,
                                               match |-> hits[k].match,
                                               context |-> hits[k].context]],
                                 Tail(paths), pattern, return_context)

search_across_notebooks(st, paths, pattern, return_context) ==
    SearchEach(st, <<>>, paths, pattern, return_context)

RECURSIVE SourceLength(_)
\* The size of a stored document, counted in the characters of its sources.
SourceLength(cells) ==
    IF cells = <<>> THEN 0 ELSE Len(Head(cells).source) + SourceLength(Tail(cells))

get_notebook_info(st, path) ==
    LET r == read_notebook_file(st, path)
    IN  IF r.exc # "none" THEN r
        ELSE Return(st, [cell_count |-> Len(r.ret.cells),
                         cell_types |-> CellTypeCounts(r.ret.cells),
                         kernel |-> KernelInfo(r.ret),
                         file_size |-> SourceLength(r.ret.cells)])

(***************************************************************************)
(* Operations layer: validation.  The structural validator is an external  *)
(* collaborator that takes a path and answers (is_valid, error); a file    *)
(* that is missing or does not parse is answered as invalid, not raised.   *)
(***************************************************************************)
validate_notebook_file(st, path) ==
    CASE st[path].kind = "missing" -> <<FALSE, "File not found">>
      [] st[path].kind = "corrupt" -> <<FALSE, "Invalid JSON">>
      [] OTHER -> <<TRUE, None>>

\* One (is_valid, error) pair per path, in a mapping keyed by path.
validate_multiple_notebooks(st, paths) ==
    Return(st, [p \in {paths[k] : k \in 1..Len(paths)} |-> validate_notebook_file(st, p)])

(***************************************************************************)
(* Operations layer: split and extraction (spec section 4.4).              *)
(***************************************************************************)
SPLIT_STRATEGIES == {"markdown_headers"}

\* A markdown cell whose source begins with a heading marker.
IsHeading(cell) ==
    /\ cell.cell_type = "markdown"
    /\ cell.source # <<>>
    /\ Head(cell.source) \in {"#", "# "}

RECURSIVE Sections(_, _)
\* The cells cut into sections: a heading opens a section that runs up to the next
\* heading; the cells before the first heading form a section of their own.
Sections(cells, done) ==
    IF cells = <<>> THEN done
    ELSE IF IsHeading(Head(cells)) \/ done = <<>>
         THEN Sections(Tail(cells), Append(done, <<Head(cells)>>))
         ELSE Sections(Tail(cells), [done EXCEPT ![Len(done)] = Append(@, Head(cells))])

\* The file of the k-th section, numbered from 1 in the order met.
SectionPath(output_dir, k) == output_dir \o "/section_" \o ToString(k) \o ".ipynb"

RECURSIVE WriteSections(_, _, _, _, _)
\* Sections k, k+1, ... written to their files, each with the source's metadata.
WriteSections(st, sections, k, output_dir, metadata) ==
    IF k > Len(sections) THEN st
    ELSE WriteSections(write_notebook_file(st, SectionPath(output_dir, k),
                                           Notebook(sections[k], metadata)),
                       sections, k + 1, output_dir, metadata)

\* Returns the paths of the files created; a strategy that is not known is a
\* ValueError raised before any file is written.
split_notebook(st, path, output_dir, split_by) ==
    LET r == read_notebook_file(st, path)
    IN  IF r.exc # "none" THEN r
        ELSE IF split_by \notin SPLIT_STRATEGIES
             THEN Raise(st, "ValueError", "Unknown split strategy")
             ELSE LET sections == Sections(r.ret.cells, <<>>)
                  IN  Return(WriteSections(st, sections, 1, output_dir, r.ret.metadata),
                             [k \in 1..Len(sections) |-> SectionPath(output_dir, k)])

RECURSIVE ExtractEach(_, _, _, _, _)
\* The inputs are loaded in the order listed; the cells of each that satisfy every
\* criterion given are appended, in their order, to the cells collected so far.
ExtractEach(st, cells, inputs, pattern, cell_type) ==
    IF inputs = <<>> THEN Done(cells)
    ELSE LET r == read_notebook_file(st, Head(inputs))
             Keep(c) == Keeps(c, cell_type, pattern)
         IN  IF r.exc # "none" THEN Failed(r.exc, r.msg)
             ELSE ExtractEach(st, cells \o SelectSeq(r.ret.cells, Keep), Tail(inputs),
                              pattern, cell_type)

\* The cells collected are written as a new document, with the metadata of the
\* first input as in a merge.
extract_cells_from_notebooks(st, output, inputs, pattern, cell_type) ==
    LET d == ExtractEach(st, <<>>, inputs, pattern, cell_type)
    IN  IF d.exc # "none" THEN Raise(st, d.exc, d.msg)
        ELSE Return(write_notebook_file(st, output,
                        Notebook(d.cells, read_notebook_file(st, inputs[1]).ret.metadata)),
                    None)

(***************************************************************************)
(* Tools (server.py): exception handling.  Every tool body is one try      *)
(* block; its except clauses are tried in the order written and the first  *)
(* whose class the raised exception is an instance of produces the result. *)
(***************************************************************************)
\* Python's exception classes, each with its base class.
BaseClass ==
    [FileNotFoundError |-> "OSError", PermissionError |-> "OSError", OSError |-> "Exception",
     IndexError |-> "LookupError", KeyError |-> "LookupError", LookupError |-> "Exception",
     NotJSONError |-> "ValueError", ValueError |-> "Exception",
     ValidationError |-> "Exception"]

RECURSIVE IsInstance(_, _)
IsInstance(exc, class) ==
    \/ exc = class
    \/ exc \in DOMAIN BaseClass /\ IsInstance(BaseClass[exc], class)

\* The except clauses of each tool: the class caught, the f-string returned under
\* 'error' and what it interpolates (the path, the index or str(e)).
ipynb_read_notebook_except ==
    <<
       [catch |-> "FileNotFoundError", fmt |-> "Notebook not found: {}", arg |-> "ipynb_filepath"],
       [catch |-> "Exception", fmt |-> "Failed to read notebook: {}", arg |-> "e"]
    >>

ipynb_list_cells_except ==
    <<
       [catch |-> "FileNotFoundError", fmt |-> "Notebook not found: {}", arg |-> "ipynb_filepath"],
       [catch |-> "Exception", fmt |-> "Failed to list cells: {}", arg |-> "e"]
    >>

ipynb_get_cell_except ==
    <<
       [catch |-> "FileNotFoundError", fmt |-> "Notebook not found: {}", arg |-> "ipynb_filepath"],
       [catch |-> "IndexError", fmt |-> "Cell index {} out of range", arg |-> "cell_index"],
       [catch |-> "Exception", fmt |-> "Failed to get cell: {}", arg |-> "e"]
    >>

ipynb_search_cells_except ==
    <<
       [catch |-> "FileNotFoundError", fmt |-> "Notebook not found: {}", arg |-> "ipynb_filepath"],
       [catch |-> "Exception", fmt |-> "Failed to search cells: {}", arg |-> "e"]
    >>

ipynb_replace_cell_except ==
    <<
       [catch |-> "FileNotFoundError", fmt |-> "Notebook not found: {}", arg |-> "ipynb_filepath"],
       [catch |-> "IndexError", fmt |-> "Cell index {} out of range", arg |-> "cell_index"],
       [catch |-> "Exception", fmt |-> "Failed to replace cell: {}", arg |-> "e"]
    >>

ipynb_insert_cell_except ==
    <<
       [catch |-> "FileNotFoundError", fmt |-> "Notebook not found: {}", arg |-> "ipynb_filepath"],
       [catch |-> "ValueError", fmt |-> "{}", arg |-> "e"],
       [catch |-> "Exception", fmt |-> "Failed to insert cell: {}", arg |-> "e"]
    >>

ipynb_append_cell_except ==
    <<
       [catch |-> "FileNotFoundError", fmt |-> "Notebook not found: {}", arg |-> "ipynb_filepath"],
       [catch |-> "ValueError", fmt |-> "{}", arg |-> "e"],
       [catch |-> "Exception", fmt |-> "Failed to append cell: {}", arg |-> "e"]
    >>

\* Variant: no handler for IndexError, which falls to the handler for Exception.
ipynb_delete_cell_except_no_index_handler ==
    <<
       [catch |-> "FileNotFoundError", fmt |-> "Notebook not found: {}", arg |-> "ipynb_filepath"],
       [catch |-> "Exception", fmt |-> "Failed to delete cell: {}", arg |-> "e"]
    >>

ipynb_delete_cell_except ==
    <<
       [catch |-> "FileNotFoundError", fmt |-> "Notebook not found: {}", arg |-> "ipynb_filepath"],
       [catch |-> "IndexError", fmt |-> "Cell index {} out of range", arg |-> "cell_index"],
       [catch |-> "Exception", fmt |-> "Failed to delete cell: {}", arg |-> "e"]
    >>

\* Variant: no handler for Exception, so what the others do not catch reaches the caller.
ipynb_str_replace_in_cell_except_no_catch_all ==
    <<
       [catch |-> "FileNotFoundError", fmt |-> "Notebook not found: {}", arg |-> "ipynb_filepath"],
       [catch |-> "IndexError", fmt |-> "Cell index {} out of range", arg |-> "cell_index"],
       [catch |-> "ValueError", fmt |-> "{}", arg |-> "e"]
    >>

ipynb_str_replace_in_cell_except ==
    <<
       [catch |-> "FileNotFoundError", fmt |-> "Notebook not found: {}", arg |-> "ipynb_filepath"],
       [catch |-> "IndexError", fmt |-> "Cell index {} out of range", arg |-> "cell_index"],
       [catch |-> "ValueError", fmt |-> "{}", arg |-> "e"],
       [catch |-> "Exception", fmt |-> "Failed to replace string: {}", arg |-> "e"]
    >>

ipynb_get_metadata_except ==
    <<
       [catch |-> "FileNotFoundError", fmt |-> "Notebook not found: {}", arg |-> "ipynb_filepath"],
       [catch |-> "IndexError", fmt |-> "Cell index {} out of range", arg |-> "cell_index"],
       [catch |-> "Exception", fmt |-> "Failed to get metadata: {}", arg |-> "e"]
    >>

ipynb_update_metadata_except ==
    <<
       [catch |-> "FileNotFoundError", fmt |-> "Notebook not found: {}", arg |-> "ipynb_filepath"],
       [catch |-> "IndexError", fmt |-> "Cell index {} out of range", arg |-> "cell_index"],
       [catch |-> "Exception", fmt |-> "Failed to update metadata: {}", arg |-> "e"]
    >>

ipynb_set_kernel_except ==
    <<
       [catch |-> "FileNotFoundError", fmt |-> "Notebook not found: {}", arg |-> "ipynb_filepath"],
       [catch |-> "Exception", fmt |-> "Failed to set kernel: {}", arg |-> "e"]
    >>

ipynb_replace_cells_batch_except ==
    <<
       [catch |-> "FileNotFoundError", fmt |-> "Notebook not found: {}", arg |-> "ipynb_filepath"],
       [catch |-> "IndexError", fmt |-> "Cell index out of range: {}", arg |-> "e"],
       [catch |-> "Exception", fmt |-> "Failed to replace cells: {}", arg |-> "e"]
    >>

ipynb_delete_cells_batch_except ==
    <<
       [catch |-> "FileNotFoundError", fmt |-> "Notebook not found: {}", arg |-> "ipynb_filepath"],
       [catch |-> "IndexError", fmt |-> "Cell index out of range: {}", arg |-> "e"],
       [catch |-> "Exception", fmt |-> "Failed to delete cells: {}", arg |-> "e"]
    >>

ipynb_insert_cells_batch_except ==
    <<
       [catch |-> "FileNotFoundError", fmt |-> "Notebook not found: {}", arg |-> "ipynb_filepath"],
       [catch |-> "ValueError", fmt |-> "{}", arg |-> "e"],
       [catch |-> "Exception", fmt |-> "Failed to insert cells: {}", arg |-> "e"]
    >>

ipynb_search_replace_all_except ==
    <<
       [catch |-> "FileNotFoundError", fmt |-> "Notebook not found: {}", arg |-> "ipynb_filepath"],
       [catch |-> "Exception", fmt |-> "Failed to search/replace: {}", arg |-> "e"]
    >>

ipynb_reorder_cells_except ==
    <<
       [catch |-> "FileNotFoundError", fmt |-> "Notebook not found: {}", arg |-> "ipynb_filepath"],
       [catch |-> "ValueError", fmt |-> "{}", arg |-> "e"],
       [catch |-> "Exception", fmt |-> "Failed to reorder cells: {}", arg |-> "e"]
    >>

ipynb_filter_cells_except ==
    <<
       [catch |-> "FileNotFoundError", fmt |-> "Notebook not found: {}", arg |-> "ipynb_filepath"],
       [catch |-> "ValueError", fmt |-> "{}", arg |-> "e"],
       [catch |-> "Exception", fmt |-> "Failed to filter cells: {}", arg |-> "e"]
    >>

ipynb_merge_notebooks_except ==
    <<
       [catch |-> "FileNotFoundError", fmt |-> "Notebook not found: {}", arg |-> "e"],
       [catch |-> "Exception", fmt |-> "Failed to merge notebooks: {}", arg |-> "e"]
    >>

ipynb_split_notebook_except ==
    <<
       [catch |-> "FileNotFoundError", fmt |-> "Notebook not found: {}", arg |-> "ipynb_filepath"],
       [catch |-> "ValueError", fmt |-> "{}", arg |-> "e"],
       [catch |-> "Exception", fmt |-> "Failed to split notebook: {}", arg |-> "e"]
    >>

ipynb_apply_to_notebooks_except ==
    <<
       [catch |-> "ValueError", fmt |-> "{}", arg |-> "e"],
       [catch |-> "Exception", fmt |-> "Failed to apply operation: {}", arg |-> "e"]
    >>

ipynb_search_notebooks_except ==
    <<
       [catch |-> "Exception", fmt |-> "Failed to search notebooks: {}", arg |-> "e"]
    >>

ipynb_sync_metadata_except ==
    <<
       [catch |-> "Exception", fmt |-> "Failed to sync metadata: {}", arg |-> "e"]
    >>

ipynb_extract_cells_except ==
    <<
       [catch |-> "Exception", fmt |-> "Failed to extract cells: {}", arg |-> "e"]
    >>

ipynb_clear_outputs_except ==
    <<
       [catch |-> "FileNotFoundError", fmt |-> "Notebook not found: {}", arg |-> "e"],
       [catch |-> "Exception", fmt |-> "Failed to clear outputs: {}", arg |-> "e"]
    >>

ipynb_validate_notebook_except ==
    <<
       [catch |-> "Exception", fmt |-> "Failed to validate notebook: {}", arg |-> "e"]
    >>

ipynb_get_notebook_info_except ==
    <<
       [catch |-> "FileNotFoundError", fmt |-> "Notebook not found: {}", arg |-> "ipynb_filepath"],
       [catch |-> "Exception", fmt |-> "Failed to get notebook info: {}", arg |-> "e"]
    >>

ipynb_validate_notebooks_batch_except ==
    <<
       [catch |-> "Exception", fmt |-> "Failed to validate notebooks: {}", arg |-> "e"]
    >>

ExceptClauses ==
    [ipynb_read_notebook |-> ipynb_read_notebook_except,
     ipynb_list_cells |-> ipynb_list_cells_except,
     ipynb_get_cell |-> ipynb_get_cell_except,
     ipynb_search_cells |-> ipynb_search_cells_except,
     ipynb_replace_cell |-> ipynb_replace_cell_except,
     ipynb_insert_cell |-> ipynb_insert_cell_except,
     ipynb_append_cell |-> ipynb_append_cell_except,
     ipynb_delete_cell |-> ipynb_delete_cell_except,
     ipynb_str_replace_in_cell |-> ipynb_str_replace_in_cell_except,
     ipynb_get_metadata |-> ipynb_get_metadata_except,
     ipynb_update_metadata |-> ipynb_update_metadata_except,
     ipynb_set_kernel |-> ipynb_set_kernel_except,
     ipynb_replace_cells_batch |-> ipynb_replace_cells_batch_except,
     ipynb_delete_cells_batch |-> ipynb_delete_cells_batch_except,
     ipynb_insert_cells_batch |-> ipynb_insert_cells_batch_except,
     ipynb_search_replace_all |-> ipynb_search_replace_all_except,
     ipynb_reorder_cells |-> ipynb_reorder_cells_except,
     ipynb_filter_cells |-> ipynb_filter_cells_except,
     ipynb_merge_notebooks |-> ipynb_merge_notebooks_except,
     ipynb_split_notebook |-> ipynb_split_notebook_except,
     ipynb_apply_to_notebooks |-> ipynb_apply_to_notebooks_except,
     ipynb_search_notebooks |-> ipynb_search_notebooks_except,
     ipynb_sync_metadata |-> ipynb_sync_metadata_except,
     ipynb_extract_cells |-> ipynb_extract_cells_except,
     ipynb_clear_outputs |-> ipynb_clear_outputs_except,
     ipynb_validate_notebook |-> ipynb_validate_notebook_except,
     ipynb_get_notebook_info |-> ipynb_get_notebook_info_except,
     ipynb_validate_notebooks_batch |-> ipynb_validate_notebooks_batch_except]

\* The value of a try block in which exc was raised with message msg: the mapping the
\* first matching clause returns; with no matching clause the exception reaches the
\* caller.
Handle(clauses, exc, msg, ipynb_filepath, cell_index) ==
    LET hits == {k \in 1..Len(clauses) : IsInstance(exc, clauses[k].catch)}
    IN  IF hits = {} THEN [exception |-> exc]
        ELSE LET c == clauses[CHOOSE k \in hits : \A h \in hits : k <= h]
             IN  Error(c.fmt, CASE c.arg = "ipynb_filepath" -> ipynb_filepath
                                [] c.arg = "cell_index" -> cell_index
                                [] OTHER -> msg)

(***************************************************************************)
(* Tools (server.py): the single-cell and metadata tools.                  *)
(***************************************************************************)
\* Variant: the tool turns negative indices away before calling the operations layer.
ipynb_get_cell_rejects_negative(st, ipynb_filepath, cell_index) ==
    LET o == IF cell_index < 0
             THEN Raise(st, "IndexError", "negative index")
             ELSE get_cell_content(st, ipynb_filepath, cell_index)
    IN  IF o.exc = "none"
        THEN Reply(o.store, [content |-> o.ret], o.exc)
        ELSE Reply(o.store, Handle(ipynb_get_cell_except, o.exc, o.msg, ipynb_filepath, ToString(cell_index)), o.exc)

ipynb_get_cell(st, ipynb_filepath, cell_index) ==
    LET o == get_cell_content(st, ipynb_filepath, cell_index)
    IN  IF o.exc = "none"
        THEN Reply(o.store, [content |-> o.ret], o.exc)
        ELSE Reply(o.store, Handle(ipynb_get_cell_except, o.exc, o.msg, ipynb_filepath, ToString(cell_index)), o.exc)

\* Variant: the tool takes cell_index as 1-based and passes cell_index - 1 on.
ipynb_replace_cell_one_based(st, ipynb_filepath, cell_index, new_content) ==
    LET o == replace_cell_content(st, ipynb_filepath, cell_index - 1, new_content)
    IN  IF o.exc = "none"
        THEN Reply(o.store, [success |-> TRUE], o.exc)
        ELSE Reply(o.store, Handle(ipynb_replace_cell_except, o.exc, o.msg, ipynb_filepath, ToString(cell_index)), o.exc)

\* Variant: the tool replaces a cell by deleting it and inserting a new code cell.
ipynb_replace_cell_reinsert(st, ipynb_filepath, cell_index, new_content) ==
    LET o1 == delete_cell(st, ipynb_filepath, cell_index)
        o2 == insert_cell(o1.store, ipynb_filepath,
                          Resolve(Len(st[ipynb_filepath].cells), cell_index), new_content, "code")
        o  == IF o1.exc # "none" THEN o1 ELSE o2
    IN  IF o.exc = "none"
        THEN Reply(o.store, [success |-> TRUE], o.exc)
        ELSE Reply(o.store, Handle(ipynb_replace_cell_except, o.exc, o.msg, ipynb_filepath, ToString(cell_index)), o.exc)

ipynb_replace_cell(st, ipynb_filepath, cell_index, new_content) ==
    LET o == replace_cell_content(st, ipynb_filepath, cell_index, new_content)
    IN  IF o.exc = "none"
        THEN Reply(o.store, [success |-> TRUE], o.exc)
        ELSE Reply(o.store, Handle(ipynb_replace_cell_except, o.exc, o.msg, ipynb_filepath, ToString(cell_index)), o.exc)

\* Variant: the count is taken from a load made before the insertion.
ipynb_insert_cell_stale_count(st, ipynb_filepath, cell_index, content, cell_type) ==
    LET o1 == read_notebook_file(st, ipynb_filepath)
        o2 == insert_cell(o1.store, ipynb_filepath, cell_index, content, cell_type)
        o  == IF o1.exc # "none" THEN o1 ELSE o2
    IN  IF o.exc = "none"
        THEN Reply(o.store, [success |-> TRUE, new_cell_count |-> Len(o1.ret.cells)], o.exc)
        ELSE Reply(o.store, Handle(ipynb_insert_cell_except, o.exc, o.msg, ipynb_filepath, ToString(cell_index)), o.exc)

\* Variant: the tool inserts after cell_index, passing cell_index + 1 on.
ipynb_insert_cell_after(st, ipynb_filepath, cell_index, content, cell_type) ==
    LET o1 == insert_cell(st, ipynb_filepath, cell_index + 1, content, cell_type)
        o2 == read_notebook_file(o1.store, ipynb_filepath)
        o  == IF o1.exc # "none" THEN o1 ELSE o2
    IN  IF o.exc = "none"
        THEN Reply(o.store, [success |-> TRUE, new_cell_count |-> Len(o.ret.cells)], o.exc)
        ELSE Reply(o.store, Handle(ipynb_insert_cell_except, o.exc, o.msg, ipynb_filepath, ToString(cell_index)), o.exc)

\* Variant: a cell type that is not a valid one is taken as the default type
\* instead of being passed on.
ipynb_insert_cell_type_fallback(st, ipynb_filepath, cell_index, content, cell_type) ==
    LET ty == IF cell_type \in VALID_CELL_TYPES THEN cell_type ELSE "code"
        o1 == insert_cell(st, ipynb_filepath, cell_index, content, ty)
        o2 == read_notebook_file(o1.store, ipynb_filepath)
        o  == IF o1.exc # "none" THEN o1 ELSE o2
    IN  IF o.exc = "none"
        THEN Reply(o.store, [success |-> TRUE, new_cell_count |-> Len(o.ret.cells)], o.exc)
        ELSE Reply(o.store, Handle(ipynb_insert_cell_except, o.exc, o.msg, ipynb_filepath, ToString(cell_index)), o.exc)

\* The try block makes two calls: the insertion, then a fresh load for the count.
ipynb_insert_cell(st, ipynb_filepath, cell_index, content, cell_type) ==
    LET o1 == insert_cell(st, ipynb_filepath, cell_index, content, cell_type)
        o2 == read_notebook_file(o1.store, ipynb_filepath)
        o  == IF o1.exc # "none" THEN o1 ELSE o2
    IN  IF o.exc = "none"
        THEN Reply(o.store, [success |-> TRUE, new_cell_count |-> Len(o.ret.cells)], o.exc)
        ELSE Reply(o.store, Handle(ipynb_insert_cell_except, o.exc, o.msg, ipynb_filepath, ToString(cell_index)), o.exc)

\* Variant: the index is taken from a load made after the append.
ipynb_append_cell_count_after(st, ipynb_filepath, content, cell_type) ==
    LET o1 == append_cell(st, ipynb_filepath, content, cell_type)
        o2 == read_notebook_file(o1.store, ipynb_filepath)
        o  == IF o1.exc # "none" THEN o1 ELSE o2
    IN  IF o.exc = "none"
        THEN Reply(o.store, [success |-> TRUE, cell_index |-> Len(o.ret.cells)], o.exc)
        ELSE Reply(o.store, Handle(ipynb_append_cell_except, o.exc, o.msg, ipynb_filepath, "None"), o.exc)

\* Variant: the tool does not pass cell_type on, so the default "code" is used.
ipynb_append_cell_default_type(st, ipynb_filepath, content, cell_type) ==
    LET o1 == read_notebook_file(st, ipynb_filepath)
        o2 == append_cell(o1.store, ipynb_filepath, content, "code")
        o  == IF o1.exc # "none" THEN o1 ELSE o2
    IN  IF o.exc = "none"
        THEN Reply(o.store, [success |-> TRUE, cell_index |-> Len(o1.ret.cells)], o.exc)
        ELSE Reply(o.store, Handle(ipynb_append_cell_except, o.exc, o.msg, ipynb_filepath, "None"), o.exc)

\* The try block makes two calls: a load for the index, then the append.
ipynb_append_cell(st, ipynb_filepath, content, cell_type) ==
    LET o1 == read_notebook_file(st, ipynb_filepath)
        o2 == append_cell(o1.store, ipynb_filepath, content, cell_type)
        o  == IF o1.exc # "none" THEN o1 ELSE o2
    IN  IF o.exc = "none"
        THEN Reply(o.store, [success |-> TRUE, cell_index |-> Len(o1.ret.cells)], o.exc)
        ELSE Reply(o.store, Handle(ipynb_append_cell_except, o.exc, o.msg, ipynb_filepath, "None"), o.exc)

\* Variant: the count is taken from a load made before the deletion.
ipynb_delete_cell_stale_count(st, ipynb_filepath, cell_index) ==
    LET o1 == read_notebook_file(st, ipynb_filepath)
        o2 == delete_cell(o1.store, ipynb_filepath, cell_index)
        o  == IF o1.exc # "none" THEN o1 ELSE o2
    IN  IF o.exc = "none"
        THEN Reply(o.store, [success |-> TRUE, new_cell_count |-> Len(o1.ret.cells)], o.exc)
        ELSE Reply(o.store, Handle(ipynb_delete_cell_except, o.exc, o.msg, ipynb_filepath, ToString(cell_index)), o.exc)

\* The try block makes two calls: the deletion, then a fresh load for the count.
ipynb_delete_cell(st, ipynb_filepath, cell_index) ==
    LET o1 == delete_cell(st, ipynb_filepath, cell_index)
        o2 == read_notebook_file(o1.store, ipynb_filepath)
        o  == IF o1.exc # "none" THEN o1 ELSE o2
    IN  IF o.exc = "none"
        THEN Reply(o.store, [success |-> TRUE, new_cell_count |-> Len(o.ret.cells)], o.exc)
        ELSE Reply(o.store, Handle(ipynb_delete_cell_except, o.exc, o.msg, ipynb_filepath, ToString(cell_index)), o.exc)

\* Variant: the tool replaces the first occurrence of old_str however many there are.
ipynb_str_replace_in_cell_first_match(st, ipynb_filepath, cell_index, old_str, new_str) ==
    LET r == get_cell_content(st, ipynb_filepath, cell_index)
        o == IF r.exc # "none" THEN r
             ELSE IF StrCount(r.ret, old_str) = 0 THEN Raise(st, "ValueError", "String not found")
             ELSE replace_cell_content(st, ipynb_filepath, cell_index,
                                       ReplaceFirst(r.ret, old_str, new_str))
    IN  IF o.exc = "none"
        THEN Reply(o.store, [success |-> TRUE], o.exc)
        ELSE Reply(o.store, Handle(ipynb_str_replace_in_cell_except, o.exc, o.msg, ipynb_filepath, ToString(cell_index)), o.exc)

ipynb_str_replace_in_cell(st, ipynb_filepath, cell_index, old_str, new_str) ==
    LET o == str_replace_in_cell(st, ipynb_filepath, cell_index, old_str, new_str)
    IN  IF o.exc = "none"
        THEN Reply(o.store, [success |-> TRUE], o.exc)
        ELSE Reply(o.store, Handle(ipynb_str_replace_in_cell_except, o.exc, o.msg, ipynb_filepath, ToString(cell_index)), o.exc)

\* f"{cell_index}" of an optional index.
IndexStr(cell_index) == IF cell_index = None THEN "None" ELSE ToString(cell_index[1])

\* On success the tool returns the mapping the operations layer returned, as it is.
ipynb_get_metadata(st, ipynb_filepath, cell_index) ==
    LET o == get_metadata(st, ipynb_filepath, cell_index)
    IN  IF o.exc = "none"
        THEN Reply(o.store, o.ret, o.exc)
        ELSE Reply(o.store, Handle(ipynb_get_metadata_except, o.exc, o.msg, ipynb_filepath, IndexStr(cell_index)), o.exc)

\* Variant: the cell index is not passed on, so every update is made at the
\* notebook level.
ipynb_update_metadata_drops_index(st, ipynb_filepath, metadata, cell_index) ==
    LET o == update_metadata(st, ipynb_filepath, metadata, None)
    IN  IF o.exc = "none"
        THEN Reply(o.store, [success |-> TRUE], o.exc)
        ELSE Reply(o.store, Handle(ipynb_update_metadata_except, o.exc, o.msg, ipynb_filepath, IndexStr(cell_index)), o.exc)

ipynb_update_metadata(st, ipynb_filepath, metadata, cell_index) ==
    LET o == update_metadata(st, ipynb_filepath, metadata, cell_index)
    IN  IF o.exc = "none"
        THEN Reply(o.store, [success |-> TRUE], o.exc)
        ELSE Reply(o.store, Handle(ipynb_update_metadata_except, o.exc, o.msg, ipynb_filepath, IndexStr(cell_index)), o.exc)

(***************************************************************************)
(* Tools (server.py): the batch tools on the cells of one notebook.        *)
(***************************************************************************)
RECURSIVE ReplaceOneByOne(_, _, _)
\* Helper of the variant below: replace_cell_content called once per replacement.
ReplaceOneByOne(st, path, replacements) ==
    IF replacements = <<>> THEN Return(st, None)
    ELSE LET o == replace_cell_content(st, path, Head(replacements).cell_index,
                                       Head(replacements).content)
         IN  IF o.exc # "none" THEN o
             ELSE ReplaceOneByOne(o.store, path, Tail(replacements))

\* Variant: the tool calls the single-cell operation once per replacement, each with its
\* own load and write.
ipynb_replace_cells_batch_one_by_one(st, ipynb_filepath, replacements) ==
    LET o == ReplaceOneByOne(st, ipynb_filepath, replacements)
    IN  IF o.exc = "none"
        THEN Reply(o.store, [success |-> TRUE, cells_modified |-> Len(replacements)], o.exc)
        ELSE Reply(o.store, Handle(ipynb_replace_cells_batch_except, o.exc, o.msg, ipynb_filepath, "None"), o.exc)

ipynb_replace_cells_batch(st, ipynb_filepath, replacements) ==
    LET o == replace_cells_batch(st, ipynb_filepath, replacements)
    IN  IF o.exc = "none"
        THEN Reply(o.store, [success |-> TRUE, cells_modified |-> Len(replacements)], o.exc)
        ELSE Reply(o.store, Handle(ipynb_replace_cells_batch_except, o.exc, o.msg, ipynb_filepath, "None"), o.exc)

\* Variant: cells_deleted counts the distinct indices of the list, len(set(cell_indices)).
ipynb_delete_cells_batch_counts_distinct(st, ipynb_filepath, cell_indices) ==
    LET o1 == delete_cells_batch(st, ipynb_filepath, cell_indices)
        o2 == read_notebook_file(o1.store, ipynb_filepath)
        o  == IF o1.exc # "none" THEN o1 ELSE o2
    IN  IF o.exc = "none"
        THEN Reply(o.store, [success |-> TRUE,
                             cells_deleted |-> Cardinality({cell_indices[k] : k \in 1..Len(cell_indices)}),
                             new_cell_count |-> Len(o.ret.cells)], o.exc)
        ELSE Reply(o.store, Handle(ipynb_delete_cells_batch_except, o.exc, o.msg, ipynb_filepath, "None"), o.exc)

\* The try block makes two calls: the deletions, then a fresh load for the count.
ipynb_delete_cells_batch(st, ipynb_filepath, cell_indices) ==
    LET o1 == delete_cells_batch(st, ipynb_filepath, cell_indices)
        o2 == read_notebook_file(o1.store, ipynb_filepath)
        o  == IF o1.exc # "none" THEN o1 ELSE o2
    IN  IF o.exc = "none"
        THEN Reply(o.store, [success |-> TRUE, cells_deleted |-> Len(cell_indices),
                             new_cell_count |-> Len(o.ret.cells)], o.exc)
        ELSE Reply(o.store, Handle(ipynb_delete_cells_batch_except, o.exc, o.msg, ipynb_filepath, "None"), o.exc)

\* Variant: the tool passes the insertions on in reverse order.
ipynb_insert_cells_batch_reversed(st, ipynb_filepath, insertions) ==
    LET o == insert_cells_batch(st, ipynb_filepath,
                 [k \in 1..Len(insertions) |-> insertions[Len(insertions) + 1 - k]])
    IN  IF o.exc = "none"
        THEN Reply(o.store, [success |-> TRUE, cells_inserted |-> Len(insertions)], o.exc)
        ELSE Reply(o.store, Handle(ipynb_insert_cells_batch_except, o.exc, o.msg, ipynb_filepath, "None"), o.exc)

ipynb_insert_cells_batch(st, ipynb_filepath, insertions) ==
    LET o == insert_cells_batch(st, ipynb_filepath, insertions)
    IN  IF o.exc = "none"
        THEN Reply(o.store, [success |-> TRUE, cells_inserted |-> Len(insertions)], o.exc)
        ELSE Reply(o.store, Handle(ipynb_insert_cells_batch_except, o.exc, o.msg, ipynb_filepath, "None"), o.exc)

\* Helper of the variant below: cells = [cells[i] for i in new_order], unchecked.
select_cells(st, path, new_order) ==
    LET r == read_notebook_file(st, path)
    IN  IF r.exc # "none" THEN r
        ELSE IF \E k \in 1..Len(new_order) : ~InRange(Len(r.ret.cells), new_order[k])
             THEN Raise(st, "IndexError", "list index out of range")
             ELSE LET nb == [r.ret EXCEPT !.cells =
                                [k \in 1..Len(new_order) |->
                                    @[Resolve(Len(r.ret.cells), new_order[k]) + 1]]]
                  IN  Return(write_notebook_file(st, path, nb), None)

\* Variant: the tool builds the new cell list itself, without the permutation check.
ipynb_reorder_cells_select(st, ipynb_filepath, new_order) ==
    LET o == select_cells(st, ipynb_filepath, new_order)
    IN  IF o.exc = "none"
        THEN Reply(o.store, [success |-> TRUE], o.exc)
        ELSE Reply(o.store, Handle(ipynb_reorder_cells_except, o.exc, o.msg, ipynb_filepath, "None"), o.exc)

\* Variant: the tool takes new_order[k] as the position cell k moves to, and passes
\* the inverse arrangement on.
ipynb_reorder_cells_inverse(st, ipynb_filepath, new_order) ==
    LET inv == IF IsPermutation(Len(new_order), new_order)
               THEN [k \in 1..Len(new_order) |->
                        (CHOOSE h \in 1..Len(new_order) : new_order[h] = k - 1) - 1]
               ELSE new_order
        o   == reorder_cells(st, ipynb_filepath, inv)
    IN  IF o.exc = "none"
        THEN Reply(o.store, [success |-> TRUE], o.exc)
        ELSE Reply(o.store, Handle(ipynb_reorder_cells_except, o.exc, o.msg, ipynb_filepath, "None"), o.exc)

ipynb_reorder_cells(st, ipynb_filepath, new_order) ==
    LET o == reorder_cells(st, ipynb_filepath, new_order)
    IN  IF o.exc = "none"
        THEN Reply(o.store, [success |-> TRUE], o.exc)
        ELSE Reply(o.store, Handle(ipynb_reorder_cells_except, o.exc, o.msg, ipynb_filepath, "None"), o.exc)

\* Variant: the two counts are reported under each other's key.
ipynb_filter_cells_counts_swapped(st, ipynb_filepath, cell_type, pattern) ==
    LET o1 == read_notebook_file(st, ipynb_filepath)
        o2 == filter_cells(o1.store, ipynb_filepath, cell_type, pattern)
        o3 == read_notebook_file(o2.store, ipynb_filepath)
        o  == IF o1.exc # "none" THEN o1 ELSE IF o2.exc # "none" THEN o2 ELSE o3
    IN  IF o.exc = "none"
        THEN Reply(o.store, [success |-> TRUE, cells_kept |-> Len(o1.ret.cells) - Len(o.ret.cells),
                             cells_deleted |-> Len(o.ret.cells)], o.exc)
        ELSE Reply(o.store, Handle(ipynb_filter_cells_except, o.exc, o.msg, ipynb_filepath, "None"), o.exc)

\* The try block makes three calls: a load for the count before, the filter, a load for
\* the count after.
ipynb_filter_cells(st, ipynb_filepath, cell_type, pattern) ==
    LET o1 == read_notebook_file(st, ipynb_filepath)
        o2 == filter_cells(o1.store, ipynb_filepath, cell_type, pattern)
        o3 == read_notebook_file(o2.store, ipynb_filepath)
        o  == IF o1.exc # "none" THEN o1 ELSE IF o2.exc # "none" THEN o2 ELSE o3
    IN  IF o.exc = "none"
        THEN Reply(o.store, [success |-> TRUE, cells_kept |-> Len(o.ret.cells),
                             cells_deleted |-> Len(o1.ret.cells) - Len(o.ret.cells)], o.exc)
        ELSE Reply(o.store, Handle(ipynb_filter_cells_except, o.exc, o.msg, ipynb_filepath, "None"), o.exc)

(***************************************************************************)
(* Tools (server.py): the tools on several notebooks.                      *)
(***************************************************************************)
\* Variant: add_separators is not passed on, so the operation uses its default, True.
ipynb_merge_notebooks_default_separators(st, output_ipynb_filepath, input_ipynb_filepaths, add_separators) ==
    LET o1 == merge_notebooks(st, output_ipynb_filepath, input_ipynb_filepaths, TRUE)
        o2 == read_notebook_file(o1.store, output_ipynb_filepath)
        o  == IF o1.exc # "none" THEN o1 ELSE o2
    IN  IF o.exc = "none"
        THEN Reply(o.store, [success |-> TRUE, total_cells |-> Len(o.ret.cells),
                             notebooks_merged |-> Len(input_ipynb_filepaths)], o.exc)
        ELSE Reply(o.store, Handle(ipynb_merge_notebooks_except, o.exc, o.msg, output_ipynb_filepath, "None"), o.exc)

\* The try block makes two calls: the merge, then a load of the output for the count.
ipynb_merge_notebooks(st, output_ipynb_filepath, input_ipynb_filepaths, add_separators) ==
    LET o1 == merge_notebooks(st, output_ipynb_filepath, input_ipynb_filepaths, add_separators)
        o2 == read_notebook_file(o1.store, output_ipynb_filepath)
        o  == IF o1.exc # "none" THEN o1 ELSE o2
    IN  IF o.exc = "none"
        THEN Reply(o.store, [success |-> TRUE, total_cells |-> Len(o.ret.cells),
                             notebooks_merged |-> Len(input_ipynb_filepaths)], o.exc)
        ELSE Reply(o.store, Handle(ipynb_merge_notebooks_except, o.exc, o.msg, output_ipynb_filepath, "None"), o.exc)

\* Variant: an operation name the tool does not know is taken as 'clear_outputs'.
ipynb_apply_to_notebooks_fallback(st, ipynb_filepaths, operation, operation_params) ==
    LET o == apply_operation_to_notebooks(st, ipynb_filepaths,
                 IF operation \in APPLY_OPERATIONS THEN operation ELSE "clear_outputs",
                 operation_params)
        success_count == Cardinality({q \in DOMAIN o.ret : o.ret[q]})
    IN  IF o.exc = "none"
        THEN Reply(o.store, [success |-> TRUE, results |-> o.ret, successful |-> success_count,
                             failed |-> Cardinality(DOMAIN o.ret) - success_count], o.exc)
        ELSE Reply(o.store, Handle(ipynb_apply_to_notebooks_except, o.exc, o.msg, "", "None"), o.exc)

\* success_count = sum(1 for v in results.values() if v); failed = len(results) - it.
ipynb_apply_to_notebooks(st, ipynb_filepaths, operation, operation_params) ==
    LET o == apply_operation_to_notebooks(st, ipynb_filepaths, operation, operation_params)
        success_count == Cardinality({q \in DOMAIN o.ret : o.ret[q]})
    IN  IF o.exc = "none"
        THEN Reply(o.store, [success |-> TRUE, results |-> o.ret, successful |-> success_count,
                             failed |-> Cardinality(DOMAIN o.ret) - success_count], o.exc)
        ELSE Reply(o.store, Handle(ipynb_apply_to_notebooks_except, o.exc, o.msg, "", "None"), o.exc)

\* As ipynb_validate_notebooks_batch, but the first path that does not validate
\* fails the whole call.
ipynb_validate_notebooks_batch_fail_fast(st, ipynb_filepaths) ==
    LET o == validate_multiple_notebooks(st, ipynb_filepaths)
        raw_results == o.ret
        bad == {p \in DOMAIN raw_results : ~raw_results[p][1]}
        results == [p \in DOMAIN raw_results |-> [valid |-> TRUE]]
    IN  IF bad = {}
        THEN Reply(o.store, [results |-> results, total |-> Len(ipynb_filepaths),
                             valid |-> Len(ipynb_filepaths), invalid |-> 0], o.exc)
        ELSE Reply(o.store, Handle(ipynb_validate_notebooks_batch_except, "ValueError",
                                   raw_results[CHOOSE p \in bad : TRUE][2], "", "None"),
                   "ValueError")

\* results[filepath] is {"valid": True} or {"valid": False, "errors": [error]};
\* valid_count is counted over the entries of results, total and invalid are
\* computed from len(ipynb_filepaths).
ipynb_validate_notebooks_batch(st, ipynb_filepaths) ==
    LET o == validate_multiple_notebooks(st, ipynb_filepaths)
        raw_results == o.ret
        results == [p \in DOMAIN raw_results |->
                       IF raw_results[p][1]
                       THEN [valid |-> TRUE]
                       ELSE [valid |-> FALSE, errors |-> <<raw_results[p][2]>>]]
        valid_count == Cardinality({p \in DOMAIN results : results[p].valid})
    IN  IF o.exc = "none"
        THEN Reply(o.store, [results |-> results, total |-> Len(ipynb_filepaths),
                             valid |-> valid_count,
                             invalid |-> Len(ipynb_filepaths) - valid_count], o.exc)
        ELSE Reply(o.store, Handle(ipynb_validate_notebooks_batch_except, o.exc, o.msg, "", "None"),
                   o.exc)

\* As ipynb_sync_metadata, but the merge flag is not passed on and the metadata
\* is always merged into the stored mapping.
ipynb_sync_metadata_always_merges(st, ipynb_filepaths, metadata, merge) ==
    LET o == sync_metadata_across_notebooks(st, ipynb_filepaths, metadata, TRUE)
    IN  IF o.exc = "none"
        THEN Reply(o.store, [success |-> TRUE, notebooks_updated |-> Len(ipynb_filepaths)], o.exc)
        ELSE Reply(o.store, Handle(ipynb_sync_metadata_except, o.exc, o.msg, "", "None"), o.exc)

ipynb_sync_metadata(st, ipynb_filepaths, metadata, merge) ==
    LET o == sync_metadata_across_notebooks(st, ipynb_filepaths, metadata, merge)
    IN  IF o.exc = "none"
        THEN Reply(o.store, [success |-> TRUE, notebooks_updated |-> Len(ipynb_filepaths)], o.exc)
        ELSE Reply(o.store, Handle(ipynb_sync_metadata_except, o.exc, o.msg, "", "None"), o.exc)

\* As ipynb_clear_outputs, but of a list only the first notebook is cleared.
ipynb_clear_outputs_first_only(st, ipynb_filepaths) ==
    LET first == IF AsList(ipynb_filepaths) = <<>> THEN <<>>
                 ELSE <<Head(AsList(ipynb_filepaths))>>
        o == clear_outputs_paths(st, [list |-> first])
        count == IF IsStr(ipynb_filepaths) THEN 1 ELSE Len(ipynb_filepaths.list)
    IN  IF o.exc = "none"
        THEN Reply(o.store, [success |-> TRUE, notebooks_processed |-> count], o.exc)
        ELSE Reply(o.store, Handle(ipynb_clear_outputs_except, o.exc, o.msg, "", "None"), o.exc)

\* count = 1 if isinstance(ipynb_filepaths, str) else len(ipynb_filepaths)
ipynb_clear_outputs(st, ipynb_filepaths) ==
    LET o == clear_outputs_paths(st, ipynb_filepaths)
        count == IF IsStr(ipynb_filepaths) THEN 1 ELSE Len(ipynb_filepaths.list)
    IN  IF o.exc = "none"
        THEN Reply(o.store, [success |-> TRUE, notebooks_processed |-> count], o.exc)
        ELSE Reply(o.store, Handle(ipynb_clear_outputs_except, o.exc, o.msg, "", "None"), o.exc)

ipynb_search_replace_all(st, ipynb_filepath, pattern, replacement, cell_type) ==
    LET o == search_replace_all(st, ipynb_filepath, pattern, replacement, cell_type)
    IN  IF o.exc = "none"
        THEN Reply(o.store, [success |-> TRUE, replacements_made |-> o.ret], o.exc)
        ELSE Reply(o.store, Handle(ipynb_search_replace_all_except, o.exc, o.msg, ipynb_filepath, "None"), o.exc)

(***************************************************************************)
(* Tools (server.py): the query tools.                                     *)
(***************************************************************************)
ipynb_read_notebook(st, ipynb_filepath) ==
    LET o == get_notebook_summary(st, ipynb_filepath)
    IN  IF o.exc = "none"
        THEN Reply(o.store, o.ret, o.exc)
        ELSE Reply(o.store, Handle(ipynb_read_notebook_except, o.exc, o.msg, ipynb_filepath, "None"), o.exc)

ipynb_list_cells(st, ipynb_filepath) ==
    LET o == list_all_cells(st, ipynb_filepath)
    IN  IF o.exc = "none"
        THEN Reply(o.store, [cells |-> o.ret], o.exc)
        ELSE Reply(o.store, Handle(ipynb_list_cells_except, o.exc, o.msg, ipynb_filepath, "None"), o.exc)

ipynb_search_cells(st, ipynb_filepath, pattern, case_sensitive) ==
    LET o == search_cells(st, ipynb_filepath, pattern, case_sensitive)
    IN  IF o.exc = "none"
        THEN Reply(o.store, [results |-> o.ret, match_count |-> Len(o.ret)], o.exc)
        ELSE Reply(o.store, Handle(ipynb_search_cells_except, o.exc, o.msg, ipynb_filepath, "None"), o.exc)

ipynb_search_notebooks(st, ipynb_filepaths, pattern, return_context) ==
    LET o == search_across_notebooks(st, ipynb_filepaths, pattern, return_context)
    IN  IF o.exc = "none"
        THEN Reply(o.store, [results |-> o.ret, match_count |-> Len(o.ret)], o.exc)
        ELSE Reply(o.store, Handle(ipynb_search_notebooks_except, o.exc, o.msg, "", "None"), o.exc)

\* Variant: the file is rewritten without its outputs before it is validated.
ipynb_validate_notebook_rewrites(st, ipynb_filepath) ==
    LET st2 == clear_outputs(st, ipynb_filepath).store
        v == validate_notebook_file(st2, ipynb_filepath)
    IN  IF v[1]
        THEN Reply(st2, [valid |-> TRUE], "none")
        ELSE Reply(st2, [valid |-> FALSE, errors |-> <<v[2]>>], "none")

\* is_valid, error = operations.validate_notebook_file(ipynb_filepath); the
\* validator answers for every file and raises nothing.
ipynb_validate_notebook(st, ipynb_filepath) ==
    LET v == validate_notebook_file(st, ipynb_filepath)
    IN  IF v[1]
        THEN Reply(st, [valid |-> TRUE], "none")
        ELSE Reply(st, [valid |-> FALSE, errors |-> <<v[2]>>], "none")

ipynb_get_notebook_info(st, ipynb_filepath) ==
    LET o == get_notebook_info(st, ipynb_filepath)
    IN  IF o.exc = "none"
        THEN Reply(o.store, o.ret, o.exc)
        ELSE Reply(o.store, Handle(ipynb_get_notebook_info_except, o.exc, o.msg, ipynb_filepath, "None"), o.exc)

(***************************************************************************)
(* Tools (server.py): kernel, split and extraction.  An argument with a    *)
(* default in the signature is None when the caller leaves it out.         *)
(***************************************************************************)
\* language defaults to "python".
ipynb_set_kernel(st, ipynb_filepath, kernel_name, display_name, language) ==
    LET lang == IF language = None THEN "python" ELSE language[1]
        o == set_kernel_spec(st, ipynb_filepath, kernel_name, display_name, lang)
    IN  IF o.exc = "none"
        THEN Reply(o.store, [success |-> TRUE], o.exc)
        ELSE Reply(o.store, Handle(ipynb_set_kernel_except, o.exc, o.msg, ipynb_filepath, "None"), o.exc)

\* split_by defaults to "markdown_headers".
ipynb_split_notebook(st, ipynb_filepath, output_dir, split_by) ==
    LET strategy == IF split_by = None THEN "markdown_headers" ELSE split_by[1]
        o == split_notebook(st, ipynb_filepath, output_dir, strategy)
    IN  IF o.exc = "none"
        THEN Reply(o.store, [success |-> TRUE, files_created |-> o.ret], o.exc)
        ELSE Reply(o.store, Handle(ipynb_split_notebook_except, o.exc, o.msg, ipynb_filepath, "None"), o.exc)

\* The try block makes two calls: the extraction, then a load of the output for the
\* count.
ipynb_extract_cells(st, output_ipynb_filepath, input_ipynb_filepaths, pattern, cell_type) ==
    LET o1 == extract_cells_from_notebooks(st, output_ipynb_filepath, input_ipynb_filepaths,
                                           pattern, cell_type)
        o2 == read_notebook_file(o1.store, output_ipynb_filepath)
        o  == IF o1.exc # "none" THEN o1 ELSE o2
    IN  IF o.exc = "none"
        THEN Reply(o.store, [success |-> TRUE, cells_extracted |-> Len(o.ret.cells),
                             source_notebooks |-> Len(input_ipynb_filepaths)], o.exc)
        ELSE Reply(o.store, Handle(ipynb_extract_cells_except, o.exc, o.msg, output_ipynb_filepath, "None"), o.exc)

(***************************************************************************)
(* Tool dispatch: the registered tool named by a call is run on the        *)
(* arguments the call carries.                                             *)
(***************************************************************************)
Invoke(st, c) ==
    CASE c.op = "ipynb_get_cell" -> ipynb_get_cell(st, c.path, c.cell_index)
      [] c.op = "ipynb_replace_cell" ->
             ipynb_replace_cell(st, c.path, c.cell_index, c.new_content)
      [] c.op = "ipynb_insert_cell" ->
             ipynb_insert_cell(st, c.path, c.cell_index, c.content, c.cell_type)
      [] c.op = "ipynb_append_cell" -> ipynb_append_cell(st, c.path, c.content, c.cell_type)
      [] c.op = "ipynb_delete_cell" -> ipynb_delete_cell(st, c.path, c.cell_index)
      [] c.op = "ipynb_str_replace_in_cell" ->
             ipynb_str_replace_in_cell(st, c.path, c.cell_index, c.old_str, c.new_str)
      [] c.op = "ipynb_get_metadata" -> ipynb_get_metadata(st, c.path, c.cell_index)
      [] c.op = "ipynb_update_metadata" ->
             ipynb_update_metadata(st, c.path, c.metadata, c.cell_index)
      [] c.op = "ipynb_replace_cells_batch" ->
             ipynb_replace_cells_batch(st, c.path, c.replacements)
      [] c.op = "ipynb_delete_cells_batch" ->
             ipynb_delete_cells_batch(st, c.path, c.cell_indices)
      [] c.op = "ipynb_insert_cells_batch" ->
             ipynb_insert_cells_batch(st, c.path, c.insertions)
      [] c.op = "ipynb_search_replace_all" ->
             ipynb_search_replace_all(st, c.path, c.pattern, c.replacement, c.cell_type)
      [] c.op = "ipynb_reorder_cells" -> ipynb_reorder_cells(st, c.path, c.new_order)
      [] c.op = "ipynb_filter_cells" -> ipynb_filter_cells(st, c.path, c.cell_type, c.pattern)
      [] c.op = "ipynb_clear_outputs" -> ipynb_clear_outputs(st, c.ipynb_filepaths)
      [] c.op = "ipynb_validate_notebooks_batch" ->
             ipynb_validate_notebooks_batch(st, c.paths)
      [] c.op = "ipynb_read_notebook" -> ipynb_read_notebook(st, c.path)
      [] c.op = "ipynb_list_cells" -> ipynb_list_cells(st, c.path)
      [] c.op = "ipynb_search_cells" ->
             ipynb_search_cells(st, c.path, c.pattern, c.case_sensitive)
      [] c.op = "ipynb_search_notebooks" ->
             ipynb_search_notebooks(st, c.paths, c.pattern, c.return_context)
      [] c.op = "ipynb_validate_notebook" -> ipynb_validate_notebook(st, c.path)
      [] c.op = "ipynb_get_notebook_info" -> ipynb_get_notebook_info(st, c.path)
      [] c.op = "ipynb_set_kernel" ->
             ipynb_set_kernel(st, c.path, c.kernel_name, c.display_name, c.language)
      [] c.op = "ipynb_merge_notebooks" ->
             ipynb_merge_notebooks(st, c.path, c.inputs, c.add_separators)
      [] c.op = "ipynb_split_notebook" ->
             ipynb_split_notebook(st, c.path, c.output_dir, c.split_by)
      [] c.op = "ipynb_extract_cells" ->
             ipynb_extract_cells(st, c.path, c.inputs, c.pattern, c.cell_type)
      [] c.op = "ipynb_apply_to_notebooks" ->
             ipynb_apply_to_notebooks(st, c.paths, c.operation, c.params)
      [] c.op = "ipynb_sync_metadata" ->
             ipynb_sync_metadata(st, c.paths, c.metadata, c.merge)

(***************************************************************************)
(* Inputs.                                                                 *)
(***************************************************************************)
\* Cell indices tried on a document of n cells: the valid range and one beyond each end.
Indices(n) == (-n - 1) .. n

\* The (path, index) pairs a single-cell tool is called with: every index on the
\* notebook, one index on the paths that hold no notebook.
Targets(st) == {<<NB, i>> : i \in Indices(Len(st[NB].cells))} \cup {<<BAD, 0>>, <<GONE, 0>>}

Contents == {<<"a">>, <<"a", "a">>}

\* One cell type outside the valid ones.
CellTypes == VALID_CELL_TYPES \cup {"chart"}

\* Insertions: every index from two before the valid range to one past the end, with
\* every content and valid type; one call with an invalid type; one call per other path.
InsertArgs(st) ==
    {[path |-> NB, cell_index |-> i, content |-> c, cell_type |-> ty] :
        i \in Indices(Len(st[NB].cells) + 1), c \in Contents, ty \in VALID_CELL_TYPES}
    \cup {[path |-> p, cell_index |-> 0, content |-> <<"a">>, cell_type |-> ty] :
            p \in Paths, ty \in {"code", "chart"}}

AppendArgs ==
    {[path |-> NB, content |-> c, cell_type |-> ty] : c \in Contents, ty \in CellTypes}
    \cup {[path |-> p, content |-> <<"a">>, cell_type |-> "code"] : p \in {BAD, GONE}}

\* (old_str, new_str) pairs: on the sources in use the first is found once in "a" and
\* twice in "aa", the second is never found.
StrReplacements == {<<(<<"a">>), (<<"a", "a">>)>>, <<(<<"b">>), (<<"a">>)>>}

\* Metadata tools: the notebook level on every path and every cell index on the notebook.
MetaTargets(st) ==
    {<<p, None>> : p \in Paths} \cup {<<NB, Some(i)>> : i \in Indices(Len(st[NB].cells))}

\* The mapping given to ipynb_update_metadata: it overwrites a key and adds one.
Metas == {[kernelspec |-> "ir", error |-> "boom"]}

(***************************************************************************)
(* Initial state: the notebook is one of a few valid documents, no call is *)
(* in progress.                                                            *)
(***************************************************************************)
InitMeta == [kernelspec |-> "python3", language_info |-> "python"]

CodeCell == [cell_type |-> "code", source |-> <<"a">>, metadata |-> [tags |-> "t"],
             outputs |-> <<"out">>, execution_count |-> Some(1)]

InitialNotebooks == {Notebook(<<>>, InitMeta), Notebook(<<CodeCell>>, InitMeta)}

Idle == [op |-> "none"]
NoResult == [none |-> TRUE]

\* The request handlers of a transport that dispatches calls concurrently, and
\* the state of one that has no call: pc is the handler's position in its tool,
\* c the call, seen the document its operation loaded, index the cell count its
\* tool read beforehand, loadedAt and wroteAt the number of writes made by the
\* handlers when its operation loaded and after it persisted.
Handlers == {1, 2}
IdleHandler == [pc |-> "idle", c |-> Idle, seen |-> Missing, index |-> 0,
                result |-> NoResult, loadedAt |-> 0, wroteAt |-> 0]
NoHandlers == [h \in Handlers |-> IdleHandler]

Init ==
    /\ store \in {[p \in Paths |-> CASE p = NB -> nb [] p = BAD -> Corrupt [] OTHER -> Missing]
                    : nb \in InitialNotebooks}
    /\ call = Idle
    /\ result = NoResult
    /\ raised = "none"
    /\ pre = store
    /\ undo = <<>>
    /\ handlers = NoHandlers

\* A tool call c, made while no call is in progress, and the state w it leaves.
\* The server is synchronous: the call runs to completion in this one step.
Step(c, w) ==
    /\ call = Idle
    /\ store' = w.store
    /\ call' = c
    /\ result' = w.result
    /\ raised' = w.raised
    /\ pre' = store
    /\ UNCHANGED handlers

GetCell ==
    \E t \in Targets(store) :
        /\ Step([op |-> "ipynb_get_cell", path |-> t[1], cell_index |-> t[2]],
                ipynb_get_cell(store, t[1], t[2]))
        /\ undo' = <<>>

ReplaceCell ==
    \E t \in Targets(store), c \in Contents :
        /\ Step([op |-> "ipynb_replace_cell", path |-> t[1], cell_index |-> t[2],
                 new_content |-> c],
                ipynb_replace_cell(store, t[1], t[2], c))
        /\ undo' = <<>>

InsertCell ==
    \E a \in InsertArgs(store) :
        /\ (a.path = NB /\ a.cell_type \in VALID_CELL_TYPES) => Len(store[NB].cells) < MaxCells
        /\ Step([op |-> "ipynb_insert_cell", path |-> a.path, cell_index |-> a.cell_index,
                 content |-> a.content, cell_type |-> a.cell_type],
                ipynb_insert_cell(store, a.path, a.cell_index, a.content, a.cell_type))
        /\ undo' = <<>>

AppendCell ==
    \E a \in AppendArgs :
        /\ (a.path = NB /\ a.cell_type \in VALID_CELL_TYPES) => Len(store[NB].cells) < MaxCells
        /\ Step([op |-> "ipynb_append_cell", path |-> a.path, content |-> a.content,
                 cell_type |-> a.cell_type],
                ipynb_append_cell(store, a.path, a.content, a.cell_type))
        /\ undo' = <<>>

\* A deletion at the path and index of the insertion made just before keeps the
\* record of that insertion; any other call drops it.
DeleteCell ==
    \E t \in Targets(store) :
        /\ Step([op |-> "ipynb_delete_cell", path |-> t[1], cell_index |-> t[2]],
                ipynb_delete_cell(store, t[1], t[2]))
        /\ undo' = IF undo # <<>> /\ undo[1].path = t[1] /\ undo[1].cell_index = t[2]
                   THEN undo
                   ELSE <<>>

StrReplaceInCell ==
    \E t \in Targets(store), r \in StrReplacements :
        /\ Step([op |-> "ipynb_str_replace_in_cell", path |-> t[1], cell_index |-> t[2],
                 old_str |-> r[1], new_str |-> r[2]],
                ipynb_str_replace_in_cell(store, t[1], t[2], r[1], r[2]))
        /\ undo' = <<>>

GetMetadata ==
    \E t \in MetaTargets(store) :
        /\ Step([op |-> "ipynb_get_metadata", path |-> t[1], cell_index |-> t[2]],
                ipynb_get_metadata(store, t[1], t[2]))
        /\ undo' = <<>>

\* Cell-level updates of an existing cell are explored in SpecMeta.
UpdateMetadata ==
    \E t \in MetaTargets(store), m \in Metas :
        /\ t[2] # None => ~InRange(Len(store[NB].cells), t[2][1])
        /\ Step([op |-> "ipynb_update_metadata", path |-> t[1], metadata |-> m,
                 cell_index |-> t[2]],
                ipynb_update_metadata(store, t[1], m, t[2]))
        /\ undo' = <<>>

\* The transport (mcp.run) hands the result to the caller and waits for the next
\* request.  A successful insertion at an index within 0..N of the N-cell document is
\* remembered for the call that follows it.
Respond ==
    /\ call # Idle
    /\ call' = Idle
    /\ result' = NoResult
    /\ raised' = "none"
    /\ pre' = store
    /\ undo' = IF /\ call.op = "ipynb_insert_cell"
                  /\ "error" \notin DOMAIN result
                  /\ call.cell_index \in 0 .. Len(pre[call.path].cells)
               THEN <<[path |-> call.path, cell_index |-> call.cell_index,
                       cells |-> pre[call.path].cells]>>
               ELSE <<>>
    /\ UNCHANGED <<store, handlers>>

Next ==
    \/ GetCell
    \/ ReplaceCell
    \/ InsertCell
    \/ AppendCell
    \/ DeleteCell
    \/ StrReplaceInCell
    \/ GetMetadata
    \/ UpdateMetadata
    \/ Respond

Spec == Init /\ [][Next]_vars

(***************************************************************************)
(* Faults.  The operation a tool calls may raise any exception, not only   *)
(* those of the operations modelled above: in a Fault step the try block   *)
(* of any tool raises an exception of any of these classes, and the tool's *)
(* except clauses decide what the caller gets.                             *)
(***************************************************************************)
ExceptionKinds == {"FileNotFoundError", "PermissionError", "OSError", "IndexError",
                   "KeyError", "ValueError", "NotJSONError", "ValidationError",
                   "Exception"}

\* Calls of the tools whose try block loads a notebook again after the operation
\* has written it: one set of calls per tool.
RereadingCalls ==
    << {[op |-> "ipynb_insert_cell", path |-> NB, cell_index |-> 0, content |-> <<"a">>,
         cell_type |-> "code", fault |-> TRUE]},
       {[op |-> "ipynb_delete_cell", path |-> NB, cell_index |-> i, fault |-> TRUE] :
           i \in {0, -1}},
       {[op |-> "ipynb_delete_cells_batch", path |-> NB, cell_indices |-> <<0>>,
         fault |-> TRUE]},
       {[op |-> "ipynb_filter_cells", path |-> NB, cell_type |-> Some("markdown"),
         pattern |-> None, fault |-> TRUE]},
       {[op |-> "ipynb_merge_notebooks", path |-> GONE, inputs |-> <<NB>>,
         add_separators |-> sep, fault |-> TRUE] : sep \in BOOLEAN},
       {[op |-> "ipynb_extract_cells", path |-> GONE, inputs |-> <<NB>>, pattern |-> None,
         cell_type |-> None, fault |-> TRUE]} >>

\* What the tool of call c has done on file system st when it comes to that load.
BeforeReload(st, c) ==
    CASE c.op = "ipynb_insert_cell" ->
             insert_cell(st, c.path, c.cell_index, c.content, c.cell_type)
      [] c.op = "ipynb_delete_cell" -> delete_cell(st, c.path, c.cell_index)
      [] c.op = "ipynb_delete_cells_batch" -> delete_cells_batch(st, c.path, c.cell_indices)
      [] c.op = "ipynb_filter_cells" ->
             filter_cells(read_notebook_file(st, c.path).store, c.path, c.cell_type, c.pattern)
      [] c.op = "ipynb_merge_notebooks" ->
             merge_notebooks(st, c.path, c.inputs, c.add_separators)
      [] c.op = "ipynb_extract_cells" ->
             extract_cells_from_notebooks(st, c.path, c.inputs, c.pattern, c.cell_type)

\* The exception is raised by the first call of the try block, before anything is
\* written, or by the load that follows the operation, after the operation has
\* written: the except clauses are the same, the file is not.
Fault ==
    \/ \E t \in DOMAIN ExceptClauses, e \in ExceptionKinds :
           /\ Step([op |-> t, path |-> NB, cell_index |-> 0, fault |-> TRUE],
                   Reply(store, Handle(ExceptClauses[t], e, "fault", NB, "0"), e))
           /\ undo' = <<>>
    \/ /\ call = Idle
       /\ \E g \in 1..Len(RereadingCalls) : \E c \in RereadingCalls[g], e \in ExceptionKinds :
              LET o == BeforeReload(store, c)
                  cell_index == IF "cell_index" \in DOMAIN c THEN ToString(c.cell_index)
                                ELSE "None"
              IN  /\ c.op = "ipynb_insert_cell" => Len(store[c.path].cells) < MaxCells
                  /\ o.exc = "none"
                  /\ Step(c, Reply(o.store,
                                   Handle(ExceptClauses[c.op], e, "fault", c.path, cell_index),
                                   e))
                  /\ undo' = <<>>

NextFaults ==
    \/ Fault
    \/ Respond

SpecFaults == Init /\ [][NextFaults]_vars

(***************************************************************************)
(* The metadata tools alone, on a document whose cells stay as they are:   *)
(* every target, cell-level updates of existing cells included.            *)
(***************************************************************************)
MetasAny == Metas \cup {[tags |-> "u"]}

\* The kernels a notebook is set to: one call leaves language out.
Kernels == {[kernel_name |-> "ir", display_name |-> "R", language |-> None],
            [kernel_name |-> "julia", display_name |-> "Julia", language |-> Some("julia")]}

SetKernel ==
    /\ call = Idle
    /\ \E p \in Paths, k \in Kernels :
           /\ Step([op |-> "ipynb_set_kernel", path |-> p, kernel_name |-> k.kernel_name,
                    display_name |-> k.display_name, language |-> k.language],
                   ipynb_set_kernel(store, p, k.kernel_name, k.display_name, k.language))
           /\ undo' = <<>>

UpdateMetadataAny ==
    \E t \in MetaTargets(store), m \in MetasAny :
        /\ Step([op |-> "ipynb_update_metadata", path |-> t[1], metadata |-> m,
                 cell_index |-> t[2]],
                ipynb_update_metadata(store, t[1], m, t[2]))
        /\ undo' = <<>>

NextMeta ==
    \/ GetMetadata
    \/ UpdateMetadataAny
    \/ SetKernel
    \/ Respond

SpecMeta == Init /\ [][NextMeta]_vars

(***************************************************************************)
(* ipynb_str_replace_in_cell alone, on sources in which old_str occurs     *)
(* never, once or several times, at the start, in the middle or at the end.*)
(***************************************************************************)
MaxStr == 3

RECURSIVE Strings(_, _)
\* The strings over the alphabet of length at most n.
Strings(alphabet, n) ==
    IF n = 0 THEN {<<>>}
    ELSE LET shorter == Strings(alphabet, n - 1)
         IN  shorter \cup {Append(w, ch) : w \in shorter, ch \in alphabet}

StrSources == Strings({"a", "b"}, MaxStr)

\* old_str: strings that cannot overlap themselves, so that the number of their
\* occurrences does not depend on how overlapping occurrences are counted.
OldStrs == {<<"a">>, <<"b">>, <<"a", "b">>}
NewStrs == {<<>>, <<"c">>}

MarkdownCell == [cell_type |-> "markdown", source |-> <<"a", "b">>, metadata |-> EmptyMeta,
                 outputs |-> <<>>, execution_count |-> None]

InitStr ==
    /\ store \in {[p \in Paths |->
                      CASE p = NB -> Notebook(<<[CodeCell EXCEPT !.source = src], MarkdownCell>>,
                                              InitMeta)
                        [] p = BAD -> Corrupt
                        [] OTHER -> Missing] : src \in StrSources}
    /\ call = Idle
    /\ result = NoResult
    /\ raised = "none"
    /\ pre = store
    /\ undo = <<>>
    /\ handlers = NoHandlers

StrReplaceInCellAny ==
    /\ call = Idle
    /\ \E t \in Targets(store), old \in OldStrs, new \in NewStrs :
           /\ Step([op |-> "ipynb_str_replace_in_cell", path |-> t[1], cell_index |-> t[2],
                    old_str |-> old, new_str |-> new],
                   ipynb_str_replace_in_cell(store, t[1], t[2], old, new))
           /\ undo' = <<>>

NextStr ==
    \/ StrReplaceInCellAny
    \/ Respond

SpecStr == InitStr /\ [][NextStr]_vars

(***************************************************************************)
(* The batch tools that replace, delete and insert cells, on notebooks     *)
(* whose cells differ from one another.                                    *)
(***************************************************************************)
MaxBatch == 2

\* The k-th cell of the initial notebooks: the types take turns, the sources are
\* "b", "ab", "aab", ...; code cells have outputs and an execution count.
CellNo(k) ==
    LET ty == <<"code", "markdown", "raw">>[((k - 1) % 3) + 1]
    IN  [cell_type |-> ty,
         source |-> [j \in 1..k |-> IF j = k THEN "b" ELSE "a"],
         metadata |-> [tags |-> "t"],
         outputs |-> IF ty = "code" THEN <<"out">> ELSE <<>>,
         execution_count |-> IF ty = "code" THEN Some(k) ELSE None]

InitBatch ==
    /\ store \in {[p \in Paths |->
                      CASE p = NB -> Notebook([k \in 1..n |-> CellNo(k)], InitMeta)
                        [] p = BAD -> Corrupt
                        [] OTHER -> Missing] : n \in 0..MaxCells}
    /\ call = Idle
    /\ result = NoResult
    /\ raised = "none"
    /\ pre = store
    /\ undo = <<>>
    /\ handlers = NoHandlers

\* Lists of at most MaxBatch replacements, over every index tried on the notebook.
ReplacementLists(st) ==
    Strings({[cell_index |-> i, content |-> <<"x">>] : i \in Indices(Len(st[NB].cells))},
            MaxBatch)

\* Lists of at most MaxBatch indices, over every index tried on the notebook.
IndexLists(st) == Strings(Indices(Len(st[NB].cells)), MaxBatch)

\* Lists of at most MaxBatch insertions: every position of the notebook and one past
\* its end, two valid cell types; one insertion with an invalid type.
InsertionLists(st) ==
    Strings({[cell_index |-> i, content |-> <<"x">>, cell_type |-> ty] :
                i \in 0..(Len(st[NB].cells) + 1), ty \in {"code", "markdown"}}
            \cup {[cell_index |-> 0, content |-> <<"x">>, cell_type |-> "chart"]},
            MaxBatch)

ReplaceCellsBatch ==
    /\ call = Idle
    /\ \E p \in Paths :
           \E reps \in IF p = NB THEN ReplacementLists(store)
                       ELSE {<<[cell_index |-> 0, content |-> <<"x">>]>>} :
               /\ Step([op |-> "ipynb_replace_cells_batch", path |-> p, replacements |-> reps],
                       ipynb_replace_cells_batch(store, p, reps))
               /\ undo' = <<>>

DeleteCellsBatch ==
    /\ call = Idle
    /\ \E p \in Paths :
           \E idx \in IF p = NB THEN IndexLists(store) ELSE {<<0>>} :
               /\ Step([op |-> "ipynb_delete_cells_batch", path |-> p, cell_indices |-> idx],
                       ipynb_delete_cells_batch(store, p, idx))
               /\ undo' = <<>>

InsertCellsBatch ==
    /\ call = Idle
    /\ \E p \in Paths :
           \E ins \in IF p = NB THEN InsertionLists(store)
                      ELSE {<<[cell_index |-> 0, content |-> <<"x">>, cell_type |-> "code"]>>} :
               /\ p = NB => Len(store[NB].cells) + Len(ins) <= MaxCells
               /\ Step([op |-> "ipynb_insert_cells_batch", path |-> p, insertions |-> ins],
                       ipynb_insert_cells_batch(store, p, ins))
               /\ undo' = <<>>

NextBatch ==
    \/ ReplaceCellsBatch
    \/ DeleteCellsBatch
    \/ InsertCellsBatch
    \/ Respond

SpecBatch == InitBatch /\ [][NextBatch]_vars

(***************************************************************************)
(* The tools that rearrange and filter the cells of a notebook.            *)
(***************************************************************************)
\* new_order lists: every list over -1..N of at most N+1 entries, the permutations of
\* 0..N-1 among them.
Orders(st) ==
    LET n == Len(st[NB].cells) IN Strings((-1)..n, n + 1)

\* Criteria of ipynb_filter_cells: each absent or present; the patterns match some, all
\* or none of the sources.
TypeCriteria == {None} \cup {Some(ty) : ty \in VALID_CELL_TYPES}
PatternCriteria == {None, Some(<<"a">>), Some(<<"a", "b">>), Some(<<"c">>)}

ReorderCells ==
    /\ call = Idle
    /\ \E p \in Paths :
           \E order \in IF p = NB THEN Orders(store) ELSE {<<0>>} :
               /\ Step([op |-> "ipynb_reorder_cells", path |-> p, new_order |-> order],
                       ipynb_reorder_cells(store, p, order))
               /\ undo' = <<>>

FilterCells ==
    /\ call = Idle
    /\ \E p \in Paths, ty \in TypeCriteria, pat \in PatternCriteria :
           /\ p # NB => (ty = None /\ pat = None)
           /\ Step([op |-> "ipynb_filter_cells", path |-> p, cell_type |-> ty, pattern |-> pat],
                   ipynb_filter_cells(store, p, ty, pat))
           /\ undo' = <<>>

NextArrange ==
    \/ ReorderCells
    \/ FilterCells
    \/ Respond

SpecArrange == InitBatch /\ [][NextArrange]_vars

(***************************************************************************)
(* The tools on several notebooks.  Two notebooks exist, NB and NB2; OUT   *)
(* is the path merged output is written to and does not exist at first.    *)
(***************************************************************************)
NB2 == "nb2.ipynb"
OUT == "out.ipynb"
PathsMulti == {NB, NB2, OUT, BAD, GONE}

\* The second notebook: two cells, different from the cells of the first, and other
\* metadata.
Notebook2 ==
    Notebook(<<[CellNo(1) EXCEPT !.source = <<"c">>], [CellNo(2) EXCEPT !.source = <<"d">>]>>,
             [kernelspec |-> "ir", language_info |-> "R", title |-> "second"])

InitMulti ==
    /\ store \in {[p \in PathsMulti |->
                      CASE p = NB -> Notebook([k \in 1..n |-> CellNo(k)], InitMeta)
                        [] p = NB2 -> Notebook2
                        [] p = BAD -> Corrupt
                        [] OTHER -> Missing] : n \in 0..MaxCells}
    /\ call = Idle
    /\ result = NoResult
    /\ raised = "none"
    /\ pre = store
    /\ undo = <<>>
    /\ handlers = NoHandlers

\* Non-empty lists of at most MaxBatch input paths; a path may be listed twice.
InputLists == Strings({NB, NB2, GONE}, MaxBatch) \ {<<>>}

\* Lists of at most MaxBatch paths to apply an operation to.
PathLists == Strings({NB, NB2, BAD, GONE}, MaxBatch)

\* Operation names with their parameters; the last name is not a supported one.
Operations ==
    {[operation |-> "set_kernel",
      params |-> [kernel_name |-> "julia", display_name |-> "Julia"]],
     [operation |-> "clear_outputs", params |-> EmptyMeta],
     [operation |-> "update_metadata", params |-> [metadata |-> [title |-> "t"]]],
     [operation |-> "delete_cell", params |-> EmptyMeta]}

MergeNotebooks ==
    /\ call = Idle
    /\ \E inputs \in InputLists, sep \in BOOLEAN :
           /\ Step([op |-> "ipynb_merge_notebooks", path |-> OUT, inputs |-> inputs,
                    add_separators |-> sep],
                   ipynb_merge_notebooks(store, OUT, inputs, sep))
           /\ undo' = <<>>

ApplyToNotebooks ==
    /\ call = Idle
    /\ \E paths \in PathLists, op \in Operations :
           /\ Step([op |-> "ipynb_apply_to_notebooks", paths |-> paths,
                    operation |-> op.operation, params |-> op.params],
                   ipynb_apply_to_notebooks(store, paths, op.operation, op.params))
           /\ undo' = <<>>

\* The directory split output is written to, and the file system of the tools
\* that compose notebooks: the paths above and the section files of that directory.
OUTDIR == "outdir"
PathsCompose == PathsMulti \cup {SectionPath(OUTDIR, k) : k \in 1..MaxCells}

\* The markdown cells of the list made headings.
Headed(cells) ==
    [k \in 1..Len(cells) |->
        IF cells[k].cell_type = "markdown"
        THEN [cells[k] EXCEPT !.source = <<"#">> \o @]
        ELSE cells[k]]

\* The first notebook with or without a heading among its cells; no section file
\* exists yet.
InitCompose ==
    /\ store \in {[p \in PathsCompose |->
                      CASE p = NB -> Notebook(IF h THEN Headed([k \in 1..n |-> CellNo(k)])
                                              ELSE [k \in 1..n |-> CellNo(k)], InitMeta)
                        [] p = NB2 -> Notebook2
                        [] p = BAD -> Corrupt
                        [] OTHER -> Missing] : n \in 0..MaxCells, h \in BOOLEAN}
    /\ call = Idle
    /\ result = NoResult
    /\ raised = "none"
    /\ pre = store
    /\ undo = <<>>
    /\ handlers = NoHandlers

\* The strategies a split is asked for: the default, the default by name, one that
\* does not exist.
SplitStrategies == {None, Some("markdown_headers"), Some("by_size")}

SplitNotebook ==
    /\ call = Idle
    /\ \E p \in {NB, NB2, BAD, GONE}, split_by \in SplitStrategies :
           /\ Step([op |-> "ipynb_split_notebook", path |-> p, output_dir |-> OUTDIR,
                    split_by |-> split_by],
                   ipynb_split_notebook(store, p, OUTDIR, split_by))
           /\ undo' = <<>>

ExtractCells ==
    /\ call = Idle
    /\ \E inputs \in InputLists, pattern \in {None, Some(<<"b">>)},
          cell_type \in {None, Some("code"), Some("markdown")} :
           /\ Step([op |-> "ipynb_extract_cells", path |-> OUT, inputs |-> inputs,
                    pattern |-> pattern, cell_type |-> cell_type],
                   ipynb_extract_cells(store, OUT, inputs, pattern, cell_type))
           /\ undo' = <<>>

NextMerge ==
    \/ MergeNotebooks
    \/ SplitNotebook
    \/ ExtractCells
    \/ Respond

SpecMerge == InitCompose /\ [][NextMerge]_vars

ValidateNotebooksBatch ==
    /\ call = Idle
    /\ \E paths \in PathLists :
           /\ Step([op |-> "ipynb_validate_notebooks_batch", paths |-> paths],
                   ipynb_validate_notebooks_batch(store, paths))
           /\ undo' = <<>>

NextApply ==
    \/ ApplyToNotebooks
    \/ ValidateNotebooksBatch
    \/ Respond

SpecApply == InitMulti /\ [][NextApply]_vars

(***************************************************************************)
(* Metadata synchronised across notebooks.  The values of the metadata     *)
(* keys are mappings themselves, as kernelspec and language_info are in a  *)
(* notebook file.                                                          *)
(***************************************************************************)
NestedMeta == [kernelspec |-> [name |-> "python3", display_name |-> "Python 3"],
               language_info |-> [name |-> "python"]]

NestedMeta2 == [kernelspec |-> [name |-> "ir", display_name |-> "R"],
                title |-> [text |-> "second"]]

InitSync ==
    /\ store \in {[p \in PathsMulti |->
                      CASE p = NB -> Notebook([k \in 1..n |-> CellNo(k)], NestedMeta)
                        [] p = NB2 -> Notebook(Notebook2.cells, NestedMeta2)
                        [] p = BAD -> Corrupt
                        [] OTHER -> Missing] : n \in 0..MaxCells}
    /\ call = Idle
    /\ result = NoResult
    /\ raised = "none"
    /\ pre = store
    /\ undo = <<>>
    /\ handlers = NoHandlers

\* Metadata to synchronise: the empty mapping, a kernelspec with fewer keys than
\* the stored ones, and a mapping with a new key.
SyncMetas ==
    {EmptyMeta,
     [kernelspec |-> [name |-> "julia"]],
     [kernelspec |-> [name |-> "ir", display_name |-> "R"], authors |-> [name |-> "team"]]}

SyncMetadata ==
    /\ call = Idle
    /\ \E paths \in PathLists, m \in SyncMetas, merge \in BOOLEAN :
           /\ Step([op |-> "ipynb_sync_metadata", paths |-> paths, metadata |-> m,
                    merge |-> merge],
                   ipynb_sync_metadata(store, paths, m, merge))
           /\ undo' = <<>>

NextSync ==
    \/ SyncMetadata
    \/ Respond

SpecSync == InitSync /\ [][NextSync]_vars

(***************************************************************************)
(* Outputs cleared from one notebook or several.                           *)
(***************************************************************************)
\* One path, or a list of at most MaxBatch paths.
ClearArgs ==
    {[str |-> p] : p \in {NB, NB2, BAD, GONE}} \cup {[list |-> s] : s \in PathLists}

ClearOutputs ==
    /\ call = Idle
    /\ \E arg \in ClearArgs :
           /\ Step([op |-> "ipynb_clear_outputs", ipynb_filepaths |-> arg],
                   ipynb_clear_outputs(store, arg))
           /\ undo' = <<>>

NextClear ==
    \/ ClearOutputs
    \/ Respond

SpecClear == InitMulti /\ [][NextClear]_vars

(***************************************************************************)
(* The tools that create cells and the tools that change stored content,   *)
(* called in any order on one notebook.                                    *)
(***************************************************************************)
\* The orders that reverse the cells of an n-cell notebook and that move its first
\* cell to the end.
ReverseOrder(n) == [k \in 1..n |-> n - k]
RotateOrder(n) == [k \in 1..n |-> k % n]

\* Calls of the creating tools, one set per tool: a valid and an invalid cell type
\* each; the batch with an invalid type after a valid one, too.
CreatingCalls(st) ==
    LET n == Len(st[NB].cells)
        ins(ty) == [cell_index |-> 0, content |-> <<"x">>, cell_type |-> ty]
    IN  << {[op |-> "ipynb_insert_cell", path |-> NB, cell_index |-> i, content |-> <<"x">>,
             cell_type |-> ty] : i \in {0, n}, ty \in {"raw", "chart"}},
           {[op |-> "ipynb_append_cell", path |-> NB, content |-> <<"x">>, cell_type |-> ty] :
               ty \in {"raw", "chart"}},
           {[op |-> "ipynb_insert_cells_batch", path |-> NB, insertions |-> s] :
               s \in {<<ins("raw")>>, <<ins("chart")>>, <<ins("raw"), ins("chart")>>}} >>

\* Calls of the content-mutating tools, one set per tool.
MutatingCalls(st) ==
    LET n == Len(st[NB].cells)
    IN  << {[op |-> "ipynb_replace_cell", path |-> NB, cell_index |-> i,
             new_content |-> <<"x">>] : i \in {0, -1}},
           {[op |-> "ipynb_str_replace_in_cell", path |-> NB, cell_index |-> 0,
             old_str |-> <<"x">>, new_str |-> <<"b">>]},
           {[op |-> "ipynb_replace_cells_batch", path |-> NB,
             replacements |-> <<[cell_index |-> 0, content |-> <<"x">>],
                                [cell_index |-> -1, content |-> <<"x">>]>>]},
           {[op |-> "ipynb_search_replace_all", path |-> NB, pattern |-> <<"x">>,
             replacement |-> <<"b">>, cell_type |-> ty] : ty \in {None, Some("markdown")}},
           {[op |-> "ipynb_reorder_cells", path |-> NB, new_order |-> order] :
               order \in {ReverseOrder(n), RotateOrder(n), <<0, 0>>}},
           {[op |-> "ipynb_clear_outputs", ipynb_filepaths |-> [str |-> NB]]},
           {[op |-> "ipynb_update_metadata", path |-> NB, metadata |-> [tags |-> "t"],
             cell_index |-> ix] : ix \in {None, Some(0)}} >>

\* The number of cells a creating call adds when it is accepted.
Adds(c) ==
    CASE c.op \in {"ipynb_insert_cell", "ipynb_append_cell"} ->
             IF c.cell_type \in VALID_CELL_TYPES THEN 1 ELSE 0
      [] c.op = "ipynb_insert_cells_batch" ->
             IF \A k \in 1..Len(c.insertions) : c.insertions[k].cell_type \in VALID_CELL_TYPES
             THEN Len(c.insertions) ELSE 0
      [] OTHER -> 0

ContentCall ==
    /\ call = Idle
    /\ \E g \in 1..Len(CreatingCalls(store) \o MutatingCalls(store)) :
       \E c \in (CreatingCalls(store) \o MutatingCalls(store))[g] :
           /\ Len(store[NB].cells) + Adds(c) <= MaxCells
           /\ Step(c, Invoke(store, c))
           /\ undo' = <<>>

NextTypes ==
    \/ ContentCall
    \/ SetKernel
    \/ Respond

SpecTypes == InitBatch /\ [][NextTypes]_vars

(***************************************************************************)
(* Calls dispatched concurrently.  Each handler runs one tool on the       *)
(* notebook, and the steps of two handlers interleave.  A step is one call *)
(* of the tool into the operations layer, and the call of a mutating       *)
(* operation is two steps: the load of the document and, after the         *)
(* mutation of the loaded document, its write.  Nothing is locked.  A      *)
(* round ends when no handler is within a tool.                            *)
(***************************************************************************)
\* The calls a handler is dispatched with, all on the notebook.
RaceCalls ==
    {[op |-> "ipynb_replace_cell", path |-> NB, cell_index |-> i, new_content |-> <<"x">>] :
        i \in {0, -1}}
    \cup {[op |-> "ipynb_insert_cell", path |-> NB, cell_index |-> 0, content |-> <<"x">>,
           cell_type |-> "raw"],
          [op |-> "ipynb_append_cell", path |-> NB, content |-> <<"x">>, cell_type |-> "raw"],
          [op |-> "ipynb_delete_cell", path |-> NB, cell_index |-> 0]}

\* The mutating operation the tool of call c calls, on file system st.
Operation(st, c) ==
    CASE c.op = "ipynb_replace_cell" ->
             replace_cell_content(st, c.path, c.cell_index, c.new_content)
      [] c.op = "ipynb_insert_cell" ->
             insert_cell(st, c.path, c.cell_index, c.content, c.cell_type)
      [] c.op = "ipynb_append_cell" -> append_cell(st, c.path, c.content, c.cell_type)
      [] c.op = "ipynb_delete_cell" -> delete_cell(st, c.path, c.cell_index)

\* The cell index as the tool's error message shows it.
ShownIndex(c) == IF c.op = "ipynb_append_cell" THEN "None" ELSE ToString(c.cell_index)

\* The number of writes the handlers have made in this round.
Writes == Cardinality({h \in Handlers : handlers[h].wroteAt > 0})

\* The calls in progress that add a cell.
Adding == {h \in Handlers : handlers[h].c.op \in {"ipynb_insert_cell", "ipynb_append_cell"}}

Dispatch(h) ==
    /\ call = Idle
    /\ handlers[h].pc = "idle"
    /\ \E c \in RaceCalls :
           /\ c.op \in {"ipynb_insert_cell", "ipynb_append_cell"}
                  => Len(store[NB].cells) + Cardinality(Adding) < MaxCells
           /\ handlers' = [handlers EXCEPT ![h] = [IdleHandler EXCEPT !.pc = "dispatched", !.c = c]]
    /\ UNCHANGED <<store, call, result, raised, pre, undo>>

\* ipynb_append_cell, before it calls the operation:
\* nb = operations.read_notebook_file(ipynb_filepath); cell_index = len(nb['cells'])
PreRead(h) ==
    /\ handlers[h].pc = "dispatched"
    /\ handlers[h].c.op = "ipynb_append_cell"
    /\ LET c == handlers[h].c
           r == read_notebook_file(store, c.path)
       IN  handlers' = [handlers EXCEPT ![h] =
               IF r.exc = "none"
               THEN [@ EXCEPT !.pc = "read", !.index = Len(r.ret.cells)]
               ELSE [@ EXCEPT !.pc = "done",
                              !.result = Handle(ExceptClauses[c.op], r.exc, r.msg, c.path,
                                                ShownIndex(c))]]
    /\ UNCHANGED <<store, call, result, raised, pre, undo>>

\* The operation loads the document.
Load(h) ==
    /\ handlers[h].pc = IF handlers[h].c.op = "ipynb_append_cell" THEN "read" ELSE "dispatched"
    /\ handlers' = [handlers EXCEPT ![h] =
                       [@ EXCEPT !.pc = "loaded", !.seen = store[handlers[h].c.path],
                                 !.loadedAt = Writes]]
    /\ UNCHANGED <<store, call, result, raised, pre, undo>>

\* The operation mutates the document it loaded and writes it; if it raises,
\* nothing is written and the tool returns the error.  ipynb_replace_cell and
\* ipynb_append_cell return here.
Persist(h) ==
    /\ handlers[h].pc = "loaded"
    /\ LET c == handlers[h].c
           o == Operation([store EXCEPT ![c.path] = handlers[h].seen], c)
       IN  IF o.exc = "none"
           THEN /\ store' = [store EXCEPT ![c.path] = o.store[c.path]]
                /\ handlers' = [handlers EXCEPT ![h] =
                       [@ EXCEPT !.wroteAt = Writes + 1,
                                 !.pc = IF c.op \in {"ipynb_insert_cell", "ipynb_delete_cell"}
                                        THEN "written" ELSE "done",
                                 !.result = IF c.op = "ipynb_append_cell"
                                            THEN [success |-> TRUE, cell_index |-> handlers[h].index]
                                            ELSE [success |-> TRUE]]]
           ELSE /\ store' = store
                /\ handlers' = [handlers EXCEPT ![h] =
                       [@ EXCEPT !.pc = "done",
                                 !.result = Handle(ExceptClauses[c.op], o.exc, o.msg, c.path,
                                                   ShownIndex(c))]]
    /\ UNCHANGED <<call, result, raised, pre, undo>>

\* ipynb_insert_cell and ipynb_delete_cell, after the operation has returned:
\* nb = operations.read_notebook_file(ipynb_filepath); new_cell_count = len(nb['cells'])
Reload(h) ==
    /\ handlers[h].pc = "written"
    /\ LET c == handlers[h].c
           r == read_notebook_file(store, c.path)
       IN  handlers' = [handlers EXCEPT ![h] =
               [@ EXCEPT !.pc = "done",
                         !.result = IF r.exc = "none"
                                    THEN [success |-> TRUE, new_cell_count |-> Len(r.ret.cells)]
                                    ELSE Handle(ExceptClauses[c.op], r.exc, r.msg, c.path,
                                                ShownIndex(c))]]
    /\ UNCHANGED <<store, call, result, raised, pre, undo>>

\* The results have been returned and no call is in progress: the next round
\* starts from the files as they are.
Finish ==
    /\ \A h \in Handlers : handlers[h].pc \in {"idle", "done"}
    /\ \E h \in Handlers : handlers[h].pc = "done"
    /\ handlers' = NoHandlers
    /\ pre' = store
    /\ UNCHANGED <<store, call, result, raised, undo>>

NextRace ==
    \/ \E h \in Handlers : Dispatch(h)
    \/ \E h \in Handlers : PreRead(h)
    \/ \E h \in Handlers : Load(h)
    \/ \E h \in Handlers : Persist(h)
    \/ \E h \in Handlers : Reload(h)
    \/ Finish

SpecRace == InitBatch /\ [][NextRace]_vars

(***************************************************************************)
(* The query tools, called in any order, with calls of ipynb_clear_outputs *)
(* between them that change what is stored.                                *)
(***************************************************************************)
\* Calls of the query tools, one set per tool.
QueryCalls(st) ==
    LET n == Len(st[NB].cells)
        files == {NB, NB2, BAD, GONE}
    IN  << {[op |-> "ipynb_read_notebook", path |-> p] : p \in files},
           {[op |-> "ipynb_list_cells", path |-> p] : p \in files},
           {[op |-> "ipynb_get_cell", path |-> t[1], cell_index |-> t[2]] : t \in Targets(st)},
           {[op |-> "ipynb_search_cells", path |-> p, pattern |-> pat, case_sensitive |-> cs] :
               p \in files, pat \in {<<"a">>, <<"x">>}, cs \in BOOLEAN},
           {[op |-> "ipynb_get_metadata", path |-> t[1], cell_index |-> t[2]] :
               t \in {<<p, None>> : p \in files} \cup {<<NB, Some(i)>> : i \in {0, -1, n}}},
           {[op |-> "ipynb_search_notebooks", paths |-> paths, pattern |-> <<"a">>,
             return_context |-> rc] : paths \in PathLists, rc \in BOOLEAN},
           {[op |-> "ipynb_validate_notebook", path |-> p] : p \in files},
           {[op |-> "ipynb_validate_notebooks_batch", paths |-> paths] : paths \in PathLists},
           {[op |-> "ipynb_get_notebook_info", path |-> p] : p \in files} >>

QueryCall ==
    /\ call = Idle
    /\ \E g \in 1..Len(QueryCalls(store)) :
       \E c \in QueryCalls(store)[g] :
           /\ Step(c, Invoke(store, c))
           /\ undo' = <<>>

NextQuery ==
    \/ QueryCall
    \/ ClearOutputs
    \/ Respond

SpecQuery == InitMulti /\ [][NextQuery]_vars

(***************************************************************************)
(* Vocabulary of the properties.                                           *)
(***************************************************************************)
SingleCellTools == {"ipynb_get_cell", "ipynb_replace_cell", "ipynb_delete_cell",
                    "ipynb_str_replace_in_cell"}

\* The current state is the one a tool call has just left.
Called == call # Idle

\* The call took the tool's success path: nothing was raised inside its try block.
Succeeded == Called /\ raised = "none"

PreCells == pre[NB].cells
PostCells == store[NB].cells

\* The position the specification assigns to index i of an n-cell document.
Position(n, i) == IF i < 0 THEN n + i ELSE i

\* A call of a single-cell tool on the notebook with an index in the valid range.
ValidSingleCellCall ==
    /\ Called
    /\ call.op \in SingleCellTools
    /\ call.path = NB
    /\ -Len(PreCells) <= call.cell_index
    /\ call.cell_index <= Len(PreCells) - 1

\* A call of a single-cell tool on the notebook with an index outside the valid range.
OutOfRangeCall ==
    /\ Called
    /\ call.op \in SingleCellTools
    /\ call.path = NB
    /\ (call.cell_index < -Len(PreCells) \/ call.cell_index > Len(PreCells) - 1)

\* Cells s and t agree everywhere except, possibly, at (1-based) position k.
SameExceptAt(s, t, k) ==
    /\ Len(s) = Len(t)
    /\ \A q \in 1..Len(s) : q # k => s[q] = t[q]

\* Only the file at NB may have changed, and only in its cells.
OnlyCellsChanged ==
    /\ \A p \in Paths \ {NB} : store[p] = pre[p]
    /\ store[NB].kind = pre[NB].kind
    /\ store[NB].metadata = pre[NB].metadata

(***************************************************************************)
(* C1 (as claimed): a successful result never contains the key 'error'.    *)
(* ipynb_get_metadata returns the stored metadata mapping as its result,   *)
(* so after ipynb_update_metadata has stored a key named 'error' the       *)
(* successful result holds that key.                                       *)
(***************************************************************************)
C1_SuccessHasNoErrorKey == Succeeded => "error" \notin DOMAIN result

(***************************************************************************)
(* C2: no tool lets an exception reach its caller.  Whatever was raised    *)
(* inside the call (file missing, index out of range, invalid value,       *)
(* validation failure, any other exception), the caller receives a mapping *)
(* whose only key is 'error', holding a message.                           *)
(***************************************************************************)
C2_NoExceptionEscapes ==
    Called =>
        /\ "exception" \notin DOMAIN result
        /\ raised # "none" =>
              /\ DOMAIN result = {"error"}
              /\ DOMAIN result.error = {"fmt", "arg"}

\* An exception none of the specific clauses catches was raised inside
\* ipynb_str_replace_in_cell and came back as the catch-all's message.
C2_Witness ==
    /\ Called
    /\ call.op = "ipynb_str_replace_in_cell"
    /\ raised = "PermissionError"
    /\ result = Error("Failed to replace string: {}", "fault")

(***************************************************************************)
(* C3: with N cells and -N <= i <= N-1 the single-cell tools address       *)
(* position N+i when i < 0 and i otherwise, a position within 0..N-1:      *)
(* get_cell returns the source at that position, replace and str_replace   *)
(* rewrite the source at that position and no other cell, delete removes   *)
(* the cell at that position.                                              *)
(***************************************************************************)
C3_IndexAddressesPosition ==
    ValidSingleCellCall =>
        LET n == Len(PreCells)
            k == Position(n, call.cell_index) + 1
        IN  /\ k \in 1..n
            /\ call.op = "ipynb_get_cell" =>
                  result = [content |-> PreCells[k].source]
            /\ call.op = "ipynb_replace_cell" =>
                  /\ result = [success |-> TRUE]
                  /\ PostCells[k].source = call.new_content
                  /\ SameExceptAt(PostCells, PreCells, k)
            /\ call.op = "ipynb_delete_cell" =>
                  /\ "success" \in DOMAIN result
                  /\ Len(PostCells) = n - 1
                  /\ \A q \in 1..(n - 1) :
                        PostCells[q] = IF q < k THEN PreCells[q] ELSE PreCells[q + 1]
            /\ call.op = "ipynb_str_replace_in_cell" =>
                  /\ Succeeded <=> StrCount(PreCells[k].source, call.old_str) = 1
                  /\ SameExceptAt(PostCells, PreCells, k)
                  /\ Succeeded => PostCells[k].source # PreCells[k].source

C3_Witness ==
    /\ ValidSingleCellCall
    /\ call.op = "ipynb_delete_cell"
    /\ Len(PreCells) = 3
    /\ call.cell_index = -2
    /\ PostCells = <<PreCells[1], PreCells[3]>>
    /\ PreCells[1] # PreCells[2]
    /\ PreCells[2] # PreCells[3]

(***************************************************************************)
(* C4 (as claimed): on the valid range -N..N-1 index resolution is a       *)
(* bijection onto 0..N-1: every position is the image of an index and no   *)
(* two distinct valid indices resolve to the same position.                *)
(***************************************************************************)
C4_ResolveIsBijection ==
    LET n == Len(store[NB].cells)
        valid == {i \in (-n - 1)..n : InRange(n, i)}
    IN  /\ \A q \in 0..(n - 1) : \E i \in valid : Resolve(n, i) = q
        /\ \A i, j \in valid : Resolve(n, i) = Resolve(n, j) => i = j

(***************************************************************************)
(* C4 (amended): on the valid range -N..N-1 index resolution maps onto     *)
(* 0..N-1, and every position q is the image of exactly two indices, q and *)
(* q-N; so it is a bijection onto 0..N-1 on the non-negative indices       *)
(* 0..N-1 alone and on the negative indices -N..-1 alone.  ipynb_get_cell  *)
(* returns the source at position q for both indices.                      *)
(***************************************************************************)
C4_ResolveIsTwoToOne ==
    LET n == Len(store[NB].cells)
        valid == {i \in (-n - 1)..n : InRange(n, i)}
    IN  /\ valid = (-n)..(n - 1)
        /\ \A i \in valid : Resolve(n, i) \in 0..(n - 1)
        /\ \A q \in 0..(n - 1) : {i \in valid : Resolve(n, i) = q} = {q, q - n}
        /\ \A q \in 0..(n - 1) : \A i \in {q, q - n} :
              ipynb_get_cell(store, NB, i).result = [content |-> store[NB].cells[q + 1].source]

\* get_cell has just resolved the negative index -N of a 3-cell document to the
\* first position, the one index 0 resolves to.
C4_Witness ==
    /\ ValidSingleCellCall
    /\ call.op = "ipynb_get_cell"
    /\ Len(PreCells) = 3
    /\ call.cell_index = -3
    /\ result = [content |-> PreCells[1].source]
    /\ PreCells[1].source # PreCells[2].source
    /\ PreCells[1].source # PreCells[3].source

(***************************************************************************)
(* C5: on an existing N-cell document an index below -N or above N-1 makes *)
(* get_cell, replace_cell, delete_cell and str_replace_in_cell return an   *)
(* error that names the index and says it is out of range, and leaves the  *)
(* file system as it was; a missing path gives the different 'Notebook not *)
(* found' error.                                                           *)
(***************************************************************************)
C5_OutOfRangeError ==
    /\ OutOfRangeCall =>
          /\ result = Error("Cell index {} out of range", ToString(call.cell_index))
          /\ store = pre
    /\ (Called /\ call.op \in SingleCellTools /\ call.path = GONE) =>
          /\ result = Error("Notebook not found: {}", GONE)
          /\ store = pre

C5_Witness ==
    /\ OutOfRangeCall
    /\ call.op = "ipynb_delete_cell"
    /\ Len(PreCells) = 2
    /\ call.cell_index = -3
    /\ result = Error("Cell index {} out of range", "-3")

(***************************************************************************)
(* C6: a successful ipynb_replace_cell(path, i, c) sets the source of the  *)
(* addressed cell to c and changes nothing else: that cell's type,         *)
(* metadata, outputs and execution count, every other cell, the number and *)
(* order of the cells and the notebook metadata stay as they were.         *)
(***************************************************************************)
C6_ReplaceChangesOnlySource ==
    (Succeeded /\ call.op = "ipynb_replace_cell") =>
        LET k == Position(Len(PreCells), call.cell_index) + 1
        IN  /\ call.path = NB
            /\ OnlyCellsChanged
            /\ SameExceptAt(PostCells, PreCells, k)
            /\ PostCells[k].source = call.new_content
            /\ PostCells[k].cell_type = PreCells[k].cell_type
            /\ PostCells[k].metadata = PreCells[k].metadata
            /\ PostCells[k].outputs = PreCells[k].outputs
            /\ PostCells[k].execution_count = PreCells[k].execution_count

\* The cell with outputs, an execution count and tags gets a new source.
C6_Witness ==
    /\ Succeeded
    /\ call.op = "ipynb_replace_cell"
    /\ Len(PreCells) >= 2
    /\ LET k == Position(Len(PreCells), call.cell_index) + 1
       IN  /\ PreCells[k] = CodeCell
           /\ PostCells[k].source # CodeCell.source
           /\ PostCells[k].outputs = <<"out">>

(***************************************************************************)
(* C7: a successful ipynb_insert_cell(path, i, content, type) on an N-cell *)
(* document with 0 <= i <= N leaves N+1 cells, reported as new_cell_count: *)
(* the new cell is at position i, the cells formerly at p >= i are at p+1  *)
(* and the cells formerly at p < i are still at p.                         *)
(***************************************************************************)
C7_InsertShifts ==
    (Succeeded /\ call.op = "ipynb_insert_cell" /\ call.cell_index \in 0..Len(PreCells)) =>
        LET n == Len(PreCells)
            i == call.cell_index
        IN  /\ call.path = NB
            /\ OnlyCellsChanged
            /\ Len(PostCells) = n + 1
            /\ result = [success |-> TRUE, new_cell_count |-> n + 1]
            /\ PostCells[i + 1].source = call.content
            /\ PostCells[i + 1].cell_type = call.cell_type
            /\ \A q \in 0..(n - 1) :
                  PostCells[(IF q >= i THEN q + 1 ELSE q) + 1] = PreCells[q + 1]

\* An insertion in the middle: one cell stays, one cell shifts.
C7_Witness ==
    /\ Succeeded
    /\ call.op = "ipynb_insert_cell"
    /\ Len(PreCells) = 2
    /\ call.cell_index = 1
    /\ PreCells[1] # PreCells[2]
    /\ PostCells[1] = PreCells[1]
    /\ PostCells[3] = PreCells[2]
    /\ result.new_cell_count = 3

(***************************************************************************)
(* C8: a successful ipynb_delete_cell(path, i) on an N-cell document       *)
(* leaves N-1 cells, reported as new_cell_count: the addressed cell is     *)
(* gone, the cells formerly after it are one position lower and the cells  *)
(* formerly before it keep their position.                                 *)
(***************************************************************************)
C8_DeleteShifts ==
    (Succeeded /\ call.op = "ipynb_delete_cell") =>
        LET n == Len(PreCells)
            d == Position(n, call.cell_index)
        IN  /\ call.path = NB
            /\ OnlyCellsChanged
            /\ d \in 0..(n - 1)
            /\ Len(PostCells) = n - 1
            /\ result = [success |-> TRUE, new_cell_count |-> n - 1]
            /\ \A q \in 0..(n - 1) :
                  /\ q < d => PostCells[q + 1] = PreCells[q + 1]
                  /\ q > d => PostCells[q] = PreCells[q + 1]

\* A deletion in the middle: one cell stays, one cell shifts.
C8_Witness ==
    /\ Succeeded
    /\ call.op = "ipynb_delete_cell"
    /\ Len(PreCells) = 3
    /\ call.cell_index = 1
    /\ PreCells[1] # PreCells[3]
    /\ PostCells = <<PreCells[1], PreCells[3]>>
    /\ result.new_cell_count = 2

(***************************************************************************)
(* C9: ipynb_insert_cell at a valid insertion index i followed by          *)
(* ipynb_delete_cell at i restores the cell sequence the document had      *)
(* before the insertion.                                                   *)
(***************************************************************************)
C9_InsertDeleteRoundTrip ==
    (Called /\ call.op = "ipynb_delete_cell" /\ undo # <<>>) =>
        /\ Succeeded
        /\ store[undo[1].path].cells = undo[1].cells
        /\ store[undo[1].path].metadata = pre[undo[1].path].metadata

\* A cell inserted in the middle of a 2-cell document has just been deleted again.
C9_Witness ==
    /\ Called
    /\ call.op = "ipynb_delete_cell"
    /\ undo # <<>>
    /\ undo[1].cell_index = 1
    /\ Len(undo[1].cells) = 2
    /\ undo[1].cells[1] # undo[1].cells[2]
    /\ PostCells = undo[1].cells
    /\ PreCells # PostCells

(***************************************************************************)
(* C10: ipynb_append_cell leaves the stored document that ipynb_insert_cell*)
(* with index N leaves, N being the number of cells before the call, for   *)
(* every content and valid cell type.                                      *)
(***************************************************************************)
C10_AppendIsInsertAtEnd ==
    (Succeeded /\ call.op = "ipynb_append_cell") =>
        /\ call.cell_type \in VALID_CELL_TYPES
        /\ store = ipynb_insert_cell(pre, call.path, Len(pre[call.path].cells),
                                     call.content, call.cell_type).store
        /\ result.cell_index = Len(pre[call.path].cells)

C10_Witness ==
    /\ Succeeded
    /\ call.op = "ipynb_append_cell"
    /\ call.cell_type = "markdown"
    /\ Len(PreCells) = 2
    /\ Len(PostCells) = 3
    /\ PostCells[3] = new_cell("markdown", call.content)

(***************************************************************************)
(* C11: after a successful ipynb_append_cell(path, c, type) on an N-cell   *)
(* document the returned cell_index is N, and ipynb_get_cell(path, -1) and *)
(* ipynb_get_cell(path, cell_index) both return content c.                 *)
(***************************************************************************)
C11_AppendThenGetCell ==
    (Succeeded /\ call.op = "ipynb_append_cell") =>
        /\ result.cell_index = Len(pre[call.path].cells)
        /\ ipynb_get_cell(store, call.path, -1).result = [content |-> call.content]
        /\ ipynb_get_cell(store, call.path, result.cell_index).result
              = [content |-> call.content]

\* The appended content differs from the content of the cells before it.
C11_Witness ==
    /\ Succeeded
    /\ call.op = "ipynb_append_cell"
    /\ Len(PreCells) = 2
    /\ result.cell_index = 2
    /\ call.content # PreCells[1].source
    /\ call.content # PreCells[2].source
    /\ ipynb_get_cell(store, NB, -1).result = [content |-> call.content]

(***************************************************************************)
(* C12: ipynb_str_replace_in_cell(path, i, old, new) on a valid index      *)
(* succeeds exactly when old occurs once in the addressed source, and then *)
(* that occurrence is replaced by new and nothing else changes; with no    *)
(* occurrence it returns a 'not found' error, with two or more a different *)
(* 'multiple matches' error, and the document stays as it was.             *)
(***************************************************************************)
C12_StrReplaceExactlyOnce ==
    (ValidSingleCellCall /\ call.op = "ipynb_str_replace_in_cell") =>
        LET k    == Position(Len(PreCells), call.cell_index) + 1
            src  == PreCells[k].source
            old  == call.old_str
            occ  == {j \in 1..Len(src) : OccursAt(src, old, j)}
        IN  /\ Cardinality(occ) = 1 =>
                  /\ result = [success |-> TRUE]
                  /\ \E j \in occ :
                        PostCells[k].source =
                            SubSeq(src, 1, j - 1) \o call.new_str
                              \o SubSeq(src, j + Len(old), Len(src))
                  /\ PostCells = [PreCells EXCEPT ![k].source = PostCells[k].source]
                  /\ OnlyCellsChanged
            /\ Cardinality(occ) = 0 =>
                  /\ result = Error("{}", "String not found")
                  /\ store = pre
            /\ Cardinality(occ) >= 2 =>
                  /\ result = Error("{}", "Multiple matches")
                  /\ store = pre

\* The single "ab" at the end of "aab" is replaced and the "a" before it stays.
C12_Witness ==
    /\ ValidSingleCellCall
    /\ call.op = "ipynb_str_replace_in_cell"
    /\ Succeeded
    /\ PreCells[1].source = <<"a", "a", "b">>
    /\ call.old_str = <<"a", "b">>
    /\ call.new_str = <<"c">>
    /\ PostCells[1].source = <<"a", "c">>

(***************************************************************************)
(* Vocabulary of the batch properties.                                     *)
(***************************************************************************)
\* The positions (0-based) the indices of the list address in a document of n cells.
PositionsOf(n, indices) == {Position(n, indices[k]) : k \in 1..Len(indices)}

RECURSIVE Without(_, _, _)
\* The cells at positions q .. Len(cells)-1 that are not at a position in gone, in order.
Without(cells, gone, q) ==
    IF q >= Len(cells) THEN <<>>
    ELSE (IF q \in gone THEN <<>> ELSE <<cells[q + 1]>>) \o Without(cells, gone, q + 1)

RECURSIVE InsertOneByOne(_, _, _)
\* The file system after ipynb_insert_cell has been called once per insertion, in the
\* order listed.
InsertOneByOne(st, path, insertions) ==
    IF insertions = <<>> THEN st
    ELSE LET ins == Head(insertions)
         IN  InsertOneByOne(ipynb_insert_cell(st, path, ins.cell_index, ins.content,
                                              ins.cell_type).store,
                            path, Tail(insertions))

(***************************************************************************)
(* C13: the batch tools are all-or-nothing.  A replace or delete list with *)
(* an out-of-range index and an insertion list with an invalid cell type   *)
(* return an error, wherever the invalid item stands in the list; and      *)
(* whenever one of the three tools returns an error the file system is the *)
(* one before the call, none of the earlier items applied.                 *)
(***************************************************************************)
C13_BatchAllOrNothing ==
    (Called /\ call.op \in {"ipynb_replace_cells_batch", "ipynb_delete_cells_batch",
                            "ipynb_insert_cells_batch"}) =>
        LET n == Len(pre[call.path].cells)
            invalid ==
                CASE call.op = "ipynb_replace_cells_batch" ->
                        \E k \in 1..Len(call.replacements) :
                            ~(-n <= call.replacements[k].cell_index
                                /\ call.replacements[k].cell_index <= n - 1)
                  [] call.op = "ipynb_delete_cells_batch" ->
                        \E k \in 1..Len(call.cell_indices) :
                            ~(-n <= call.cell_indices[k] /\ call.cell_indices[k] <= n - 1)
                  [] OTHER ->
                        \E k \in 1..Len(call.insertions) :
                            call.insertions[k].cell_type \notin {"code", "markdown", "raw"}
        IN  /\ invalid => DOMAIN result = {"error"}
            /\ "error" \in DOMAIN result => store = pre

\* A batch whose first replacement is valid and whose second is out of range.
C13_Witness ==
    /\ Called
    /\ call.op = "ipynb_replace_cells_batch"
    /\ call.path = NB
    /\ Len(PreCells) = 2
    /\ Len(call.replacements) = 2
    /\ call.replacements[1].cell_index = 0
    /\ call.replacements[2].cell_index = 2
    /\ PreCells[1].source # call.replacements[1].content
    /\ "error" \in DOMAIN result
    /\ store = pre

(***************************************************************************)
(* C14 (as claimed): for every list of valid indices that address distinct *)
(* cells ipynb_delete_cells_batch succeeds, removes exactly the cells that *)
(* were at the addressed positions before the call and keeps the others in *)
(* their order; the list in reverse order gives the same document.         *)
(* Deleting from the highest index to the lowest keeps non-negative        *)
(* indices in place, but a negative index counts from the end of a list    *)
(* that has already lost cells: [-1, -2] on [A, B, C] leaves [B].          *)
(***************************************************************************)
C14_DeleteBatchRemovesListed ==
    (/\ Called
     /\ call.op = "ipynb_delete_cells_batch"
     /\ call.path = NB
     /\ \A k \in 1..Len(call.cell_indices) :
           /\ -Len(PreCells) <= call.cell_indices[k]
           /\ call.cell_indices[k] <= Len(PreCells) - 1
     /\ \A k, h \in 1..Len(call.cell_indices) :
           k # h => Position(Len(PreCells), call.cell_indices[k])
                      # Position(Len(PreCells), call.cell_indices[h]))
    =>
        /\ Succeeded
        /\ PostCells = Without(PreCells, PositionsOf(Len(PreCells), call.cell_indices), 0)
        /\ store = ipynb_delete_cells_batch(
                       pre, NB,
                       [k \in 1..Len(call.cell_indices) |->
                           call.cell_indices[Len(call.cell_indices) + 1 - k]]).store

(***************************************************************************)
(* C15: ipynb_insert_cells_batch with valid insertions leaves the document *)
(* that one ipynb_insert_cell call per insertion, in the listed order,     *)
(* leaves, each index read against the document the earlier insertions     *)
(* left; and it reports the number of insertions.                          *)
(***************************************************************************)
C15_InsertBatchIsSequential ==
    (/\ Called
     /\ call.op = "ipynb_insert_cells_batch"
     /\ call.path = NB
     /\ \A k \in 1..Len(call.insertions) :
           call.insertions[k].cell_type \in {"code", "markdown", "raw"})
    =>
        /\ result = [success |-> TRUE, cells_inserted |-> Len(call.insertions)]
        /\ store = InsertOneByOne(pre, NB, call.insertions)

\* {0, A} then {0, B} into [X] gives [B, A, X].
C15_Witness ==
    /\ Succeeded
    /\ call.op = "ipynb_insert_cells_batch"
    /\ Len(PreCells) = 1
    /\ call.insertions = <<[cell_index |-> 0, content |-> <<"x">>, cell_type |-> "code"],
                           [cell_index |-> 0, content |-> <<"x">>, cell_type |-> "markdown"]>>
    /\ PostCells = <<new_cell("markdown", <<"x">>), new_cell("code", <<"x">>), PreCells[1]>>

(***************************************************************************)
(* C16: ipynb_reorder_cells on an N-cell document with a new_order that is *)
(* not a permutation of 0..N-1 (wrong length, an index missing, repeated   *)
(* or out of range) returns an error and leaves the file system as it was. *)
(***************************************************************************)
C16_ReorderRejectsNonPermutation ==
    (/\ Called
     /\ call.op = "ipynb_reorder_cells"
     /\ call.path = NB
     /\ ~(/\ Len(call.new_order) = Len(PreCells)
          /\ \A q \in 0..(Len(PreCells) - 1) :
                Cardinality({k \in 1..Len(call.new_order) : call.new_order[k] = q}) = 1))
    =>
        /\ DOMAIN result = {"error"}
        /\ store = pre

\* A list of the right length with a repeated index, both entries in range.
C16_Witness ==
    /\ Called
    /\ call.op = "ipynb_reorder_cells"
    /\ Len(PreCells) = 3
    /\ call.new_order = <<1, 1, 0>>
    /\ "error" \in DOMAIN result
    /\ store = pre

(***************************************************************************)
(* C17: a successful ipynb_reorder_cells(path, new_order) leaves the same  *)
(* N cells, each unchanged: position k holds the cell that was at position *)
(* new_order[k] before the call, for every k in 0..N-1.                    *)
(***************************************************************************)
C17_ReorderPlacesCells ==
    (Succeeded /\ call.op = "ipynb_reorder_cells") =>
        /\ call.path = NB
        /\ result = [success |-> TRUE]
        /\ OnlyCellsChanged
        /\ Len(PostCells) = Len(PreCells)
        /\ \A k \in 0..(Len(PreCells) - 1) :
              PostCells[k + 1] = PreCells[call.new_order[k + 1] + 1]

\* A rotation of three different cells, which is not its own inverse.
C17_Witness ==
    /\ Succeeded
    /\ call.op = "ipynb_reorder_cells"
    /\ Len(PreCells) = 3
    /\ call.new_order = <<1, 2, 0>>
    /\ PostCells = <<PreCells[2], PreCells[3], PreCells[1]>>
    /\ Cardinality({PreCells[1], PreCells[2], PreCells[3]}) = 3

(***************************************************************************)
(* C18: ipynb_filter_cells keeps exactly the cells that satisfy every      *)
(* criterion supplied (the type when given and the pattern when given), in *)
(* their order, and deletes the others; with no criterion the document is  *)
(* unchanged.  cells_kept is the resulting cell count and cells_kept +     *)
(* cells_deleted is the cell count before the call.                        *)
(***************************************************************************)
C18_FilterKeepsMatching ==
    (Called /\ call.op = "ipynb_filter_cells" /\ call.path = NB) =>
        LET n == Len(PreCells)
            dropped == {q \in 0..(n - 1) :
                          \/ /\ call.cell_type # None
                             /\ PreCells[q + 1].cell_type # call.cell_type[1]
                          \/ /\ call.pattern # None
                             /\ ~Matches(call.pattern[1], PreCells[q + 1].source)}
        IN  /\ Succeeded
            /\ OnlyCellsChanged
            /\ PostCells = Without(PreCells, dropped, 0)
            /\ (call.cell_type = None /\ call.pattern = None) => store = pre
            /\ result = [success |-> TRUE, cells_kept |-> Len(PostCells),
                         cells_deleted |-> n - Len(PostCells)]

\* Both criteria given: of three cells, two match the pattern and one of those has
\* the type.
C18_Witness ==
    /\ Succeeded
    /\ call.op = "ipynb_filter_cells"
    /\ call.cell_type = Some("markdown")
    /\ call.pattern = Some(<<"a">>)
    /\ Len(PreCells) = 3
    /\ PreCells[3].cell_type = "raw"
    /\ Matches(<<"a">>, PreCells[3].source)
    /\ PostCells = <<PreCells[2]>>
    /\ result = [success |-> TRUE, cells_kept |-> 1, cells_deleted |-> 2]

(***************************************************************************)
(* Vocabulary of the properties of the tools on several notebooks.         *)
(***************************************************************************)
RECURSIVE SumOfCells(_, _)
\* The number of cells of the listed notebooks of file system st, repeats counted.
SumOfCells(st, paths) ==
    IF paths = <<>> THEN 0 ELSE Len(st[Head(paths)].cells) + SumOfCells(st, Tail(paths))

\* The 1-based position in the merged output at which the block of the k-th input
\* starts (its separator, when there is one).
BlockStart(st, inputs, sep, k) ==
    SumOfCells(st, SubSeq(inputs, 1, k - 1)) + (IF sep THEN k - 1 ELSE 0) + 1

(***************************************************************************)
(* C19: a successful ipynb_merge_notebooks writes an output whose cells    *)
(* are the inputs' cells in the listed order and whose metadata is that of *)
(* the first input; with add_separators one markdown cell precedes each    *)
(* input's block, the first included, so that total_cells is the sum of    *)
(* the inputs' cell counts plus the number of inputs, and without it the   *)
(* plain sum.  The inputs stay as they were.                               *)
(***************************************************************************)
C19_MergeConcatenates ==
    (Succeeded /\ call.op = "ipynb_merge_notebooks") =>
        LET inputs == call.inputs
            sep    == call.add_separators
            out    == store[call.path]
            total  == SumOfCells(pre, inputs) + (IF sep THEN Len(inputs) ELSE 0)
        IN  /\ result = [success |-> TRUE, total_cells |-> total,
                         notebooks_merged |-> Len(inputs)]
            /\ out.kind = "notebook"
            /\ Len(out.cells) = total
            /\ out.metadata = pre[inputs[1]].metadata
            /\ \A k \in 1..Len(inputs) :
                  LET start == BlockStart(pre, inputs, sep, k)
                      first == IF sep THEN start + 1 ELSE start
                  IN  /\ sep => /\ out.cells[start].cell_type = "markdown"
                                /\ \E j \in 1..Len(out.cells[start].source) :
                                      out.cells[start].source[j] = inputs[k]
                      /\ \A q \in 1..Len(pre[inputs[k]].cells) :
                            out.cells[first + q - 1] = pre[inputs[k]].cells[q]
            /\ \A p \in PathsMulti \ {call.path} : store[p] = pre[p]

\* Notebooks of 3 and 2 cells merged with separators: 7 cells.
C19_Witness ==
    /\ Succeeded
    /\ call.op = "ipynb_merge_notebooks"
    /\ call.inputs = <<NB, NB2>>
    /\ call.add_separators
    /\ Len(pre[NB].cells) = 3
    /\ Len(pre[NB2].cells) = 2
    /\ result.total_cells = 7
    /\ store[OUT].cells[5].cell_type = "markdown"
    /\ store[OUT].cells[6] = pre[NB2].cells[1]

(***************************************************************************)
(* C20: ipynb_apply_to_notebooks with an operation name other than         *)
(* set_kernel, clear_outputs and update_metadata returns an error for the  *)
(* whole call and leaves every file as it was, whatever the paths are.     *)
(***************************************************************************)
C20_UnknownOperationFails ==
    (/\ Called
     /\ call.op = "ipynb_apply_to_notebooks"
     /\ call.operation \notin {"set_kernel", "clear_outputs", "update_metadata"})
    =>
        /\ DOMAIN result = {"error"}
        /\ store = pre

\* The unknown operation is refused for a list that names an existing notebook with
\* outputs to clear.
C20_Witness ==
    /\ Called
    /\ call.op = "ipynb_apply_to_notebooks"
    /\ call.operation = "delete_cell"
    /\ call.paths = <<NB, NB2>>
    /\ Len(pre[NB].cells) = 3
    /\ "error" \in DOMAIN result
    /\ store = pre

\* The paths of a list, as a set.
Listed(paths) == {paths[k] : k \in 1..Len(paths)}

\* The path holds no loadable notebook: every operation on it fails.
Unloadable(st, p) == st[p].kind # "notebook"

(***************************************************************************)
(* C21: in ipynb_apply_to_notebooks with one of the supported operation    *)
(* names and in ipynb_validate_notebooks_batch, a listed path that is      *)
(* missing or does not parse does not fail the call: the call succeeds,    *)
(* 'results' has one entry for each listed path, the entry of the failing  *)
(* path is False (apply) or invalid (validate), the failing file is left   *)
(* as it was, and every other listed path has a True / valid entry and, in *)
(* apply, holds the document the operation produces from the one it held.  *)
(***************************************************************************)
C21_FailingPathDoesNotFailCall ==
    /\ (/\ Called
        /\ call.op = "ipynb_apply_to_notebooks"
        /\ call.operation \in {"set_kernel", "clear_outputs", "update_metadata"})
       =>
           /\ raised = "none"
           /\ DOMAIN result = {"success", "results", "successful", "failed"}
           /\ result.success = TRUE
           /\ DOMAIN result.results = Listed(call.paths)
           /\ \A p \in Listed(call.paths) :
                  IF Unloadable(pre, p)
                  THEN result.results[p] = FALSE /\ store[p] = pre[p]
                  ELSE /\ result.results[p] = TRUE
                       /\ store[p] = ApplyOne(pre, p, call.operation, call.params).store[p]
           /\ \A p \in PathsMulti \ Listed(call.paths) : store[p] = pre[p]
    /\ (Called /\ call.op = "ipynb_validate_notebooks_batch")
       =>
           /\ raised = "none"
           /\ "error" \notin DOMAIN result
           /\ DOMAIN result.results = Listed(call.paths)
           /\ \A p \in Listed(call.paths) : result.results[p].valid = ~Unloadable(pre, p)
           /\ store = pre

\* A list that names a file that does not parse before a notebook has been
\* validated: the first entry is invalid, the second valid.  The first notebook
\* has lost its outputs and kept its cells, which only a clear_outputs applied
\* through ipynb_apply_to_notebooks does here.
C21_Witness ==
    /\ Called
    /\ call.op = "ipynb_validate_notebooks_batch"
    /\ call.paths = <<BAD, NB2>>
    /\ "error" \notin DOMAIN result
    /\ result.results[BAD].valid = FALSE
    /\ result.results[NB2].valid = TRUE
    /\ Len(store[NB].cells) = 3
    /\ store[NB].cells[1].cell_type = "code"
    /\ store[NB].cells[1].outputs = <<>>
    /\ store[GONE].kind = "missing"

(***************************************************************************)
(* C22: after a successful ipynb_sync_metadata(paths, m, merge) the        *)
(* metadata of every listed notebook is exactly m when merge is false;     *)
(* when merge is true it has the keys of the old metadata and of m, each   *)
(* key of m with m's value (a nested mapping is replaced as a whole, not   *)
(* merged into) and every other key with its old value.  The cells of the  *)
(* listed notebooks and the files not listed are unchanged.                *)
(***************************************************************************)
C22_SyncMetadataReplacesOrMerges ==
    (Succeeded /\ call.op = "ipynb_sync_metadata")
    =>
        /\ \A p \in Listed(call.paths) :
               /\ store[p].kind = "notebook"
               /\ store[p].cells = pre[p].cells
               /\ IF call.merge
                  THEN /\ DOMAIN store[p].metadata
                              = DOMAIN pre[p].metadata \cup DOMAIN call.metadata
                       /\ \A k \in DOMAIN call.metadata :
                              store[p].metadata[k] = call.metadata[k]
                       /\ \A k \in DOMAIN pre[p].metadata \ DOMAIN call.metadata :
                              store[p].metadata[k] = pre[p].metadata[k]
                  ELSE store[p].metadata = call.metadata
        /\ \A p \in PathsMulti \ Listed(call.paths) : store[p] = pre[p]
        /\ result = [success |-> TRUE, notebooks_updated |-> Len(call.paths)]

\* A kernelspec of one key has been merged into two notebooks whose kernelspec had
\* two: the stored kernelspec is the given one, without the old display_name, and
\* the keys that were not given are kept.
C22_Witness ==
    /\ Succeeded
    /\ call.op = "ipynb_sync_metadata"
    /\ call.paths = <<NB, NB2>>
    /\ call.merge
    /\ call.metadata = [kernelspec |-> [name |-> "julia"]]
    /\ pre[NB].metadata = NestedMeta
    /\ pre[NB2].metadata = NestedMeta2
    /\ Len(pre[NB].cells) = 3
    /\ store[NB].metadata = [kernelspec |-> [name |-> "julia"],
                             language_info |-> [name |-> "python"]]
    /\ store[NB2].metadata = [kernelspec |-> [name |-> "julia"], title |-> [text |-> "second"]]
    /\ store[NB].cells = pre[NB].cells

\* Cell d is cell c with its outputs emptied and its execution count absent if c
\* is a code cell, and c itself if it is not.
Cleared(c, d) ==
    /\ d.cell_type = c.cell_type
    /\ d.source = c.source
    /\ d.metadata = c.metadata
    /\ IF c.cell_type = "code"
       THEN d.outputs = <<>> /\ d.execution_count = None
       ELSE d = c

(***************************************************************************)
(* C23: after a successful ipynb_clear_outputs every code cell of every    *)
(* target notebook has empty outputs and no execution_count, every cell    *)
(* has the source, type and metadata it had, and every cell that is not a  *)
(* code cell is as it was; the notebook metadata and the other files are   *)
(* unchanged.  The tool is idempotent: called again with the same argument *)
(* it succeeds with the same result and leaves every file as it is.        *)
(***************************************************************************)
C23_ClearOutputsIdempotent ==
    (Succeeded /\ call.op = "ipynb_clear_outputs")
    =>
        /\ \A p \in Listed(AsList(call.ipynb_filepaths)) :
               /\ store[p].kind = "notebook"
               /\ store[p].metadata = pre[p].metadata
               /\ Len(store[p].cells) = Len(pre[p].cells)
               /\ \A k \in 1..Len(pre[p].cells) : Cleared(pre[p].cells[k], store[p].cells[k])
        /\ \A p \in PathsMulti \ Listed(AsList(call.ipynb_filepaths)) : store[p] = pre[p]
        /\ result = [success |-> TRUE,
                     notebooks_processed |-> IF IsStr(call.ipynb_filepaths) THEN 1
                                             ELSE Len(call.ipynb_filepaths.list)]
        /\ ipynb_clear_outputs(store, call.ipynb_filepaths).store = store
        /\ ipynb_clear_outputs(store, call.ipynb_filepaths).result = result

\* Two notebooks whose code cells had outputs and execution counts have been
\* cleared in one call; the markdown and raw cells are as they were.
C23_Witness ==
    /\ Succeeded
    /\ call.op = "ipynb_clear_outputs"
    /\ call.ipynb_filepaths = [list |-> <<NB, NB2>>]
    /\ Len(pre[NB].cells) = 3
    /\ pre[NB].cells[1].cell_type = "code"
    /\ pre[NB].cells[1].outputs # <<>>
    /\ pre[NB].cells[1].execution_count # None
    /\ pre[NB2].cells[1].outputs # <<>>
    /\ store[NB].cells[1].outputs = <<>>
    /\ store[NB].cells[1].execution_count = None
    /\ store[NB2].cells[1].outputs = <<>>
    /\ store[NB].cells[2] = pre[NB].cells[2]
    /\ store[NB].cells[3] = pre[NB].cells[3]
    /\ store # pre

\* The tools that change stored content without adding or removing a cell.
ContentMutators ==
    {"ipynb_replace_cell", "ipynb_str_replace_in_cell", "ipynb_replace_cells_batch",
     "ipynb_search_replace_all", "ipynb_clear_outputs", "ipynb_update_metadata"}

\* The cell types of a sequence of cells, in order.
TypesOf(cells) == [k \in 1..Len(cells) |-> cells[k].cell_type]

\* The call asks for a cell of a type that is not code, markdown or raw.
AsksInvalidType ==
    \/ /\ call.op \in {"ipynb_insert_cell", "ipynb_append_cell"}
       /\ call.cell_type \notin {"code", "markdown", "raw"}
    \/ /\ call.op = "ipynb_insert_cells_batch"
       /\ \E k \in 1..Len(call.insertions) :
              call.insertions[k].cell_type \notin {"code", "markdown", "raw"}

(***************************************************************************)
(* C24: in every reachable state every cell of every stored notebook has   *)
(* the type code, markdown or raw.  A content-mutating tool (replace,      *)
(* str_replace, batch replace, search-replace, clear_outputs, metadata     *)
(* update) leaves the type of the cell at every position as it was, and    *)
(* after a reorder position k has the type of the cell that new_order[k]   *)
(* named.  ipynb_insert_cell, ipynb_append_cell and                        *)
(* ipynb_insert_cells_batch asked for any other cell type return an error  *)
(* and leave every file as it was.                                         *)
(***************************************************************************)
C24_CellTypesStayValid ==
    /\ \A p \in DOMAIN store :
           \A k \in 1..Len(store[p].cells) :
               store[p].cells[k].cell_type \in {"code", "markdown", "raw"}
    /\ (Called /\ call.op \in ContentMutators)
       => TypesOf(store[NB].cells) = TypesOf(pre[NB].cells)
    /\ (Called /\ call.op = "ipynb_reorder_cells")
       => IF raised = "none"
          THEN TypesOf(store[NB].cells)
                   = [k \in 1..Len(pre[NB].cells) |->
                         pre[NB].cells[call.new_order[k] + 1].cell_type]
          ELSE store = pre
    /\ (Called /\ AsksInvalidType)
       => "error" \in DOMAIN result /\ store = pre

\* A batch whose second insertion names the type 'chart' has been refused and no
\* cell was added, on a notebook whose cells were created, rewritten and reordered
\* before: it holds an inserted raw cell first and its code cell, source replaced
\* and outputs cleared, last.
C24_Witness ==
    /\ Called
    /\ call.op = "ipynb_insert_cells_batch"
    /\ Len(call.insertions) = 2
    /\ call.insertions[1].cell_type = "raw"
    /\ call.insertions[2].cell_type = "chart"
    /\ "error" \in DOMAIN result
    /\ store = pre
    /\ Len(store[NB].cells) = 3
    /\ store[NB].cells[1] = new_cell("raw", <<"x">>)
    /\ store[NB].cells[3].cell_type = "code"
    /\ store[NB].cells[3].source = <<"x">>
    /\ store[NB].cells[3].outputs = <<>>
    /\ store[NB].cells[3].metadata = [tags |-> "t"]

(***************************************************************************)
(* C25: after a successful ipynb_update_metadata(path, m), at the notebook *)
(* level or on a cell with a valid index, ipynb_get_metadata for the same  *)
(* target succeeds and returns a mapping in which every key of m has m's   *)
(* value and every key the target had before that is not in m has the      *)
(* value it had.                                                           *)
(***************************************************************************)
C25_UpdateThenGetMetadata ==
    (Succeeded /\ call.op = "ipynb_update_metadata")
    =>
        LET before == ipynb_get_metadata(pre, call.path, call.cell_index)
            after  == ipynb_get_metadata(store, call.path, call.cell_index)
        IN  /\ before.raised = "none"
            /\ after.raised = "none"
            /\ \A k \in DOMAIN call.metadata : k \in DOMAIN after.result
                                               /\ after.result[k] = call.metadata[k]
            /\ \A k \in DOMAIN before.result \ DOMAIN call.metadata :
                   k \in DOMAIN after.result /\ after.result[k] = before.result[k]

\* The last cell, addressed as -1, has been given a mapping with two new keys: its
\* old key is kept.  The notebook metadata was updated before: its kernelspec has
\* the new value and its language_info the old one.
C25_Witness ==
    /\ Succeeded
    /\ call.op = "ipynb_update_metadata"
    /\ call.path = NB
    /\ call.cell_index = Some(-1)
    /\ call.metadata = [kernelspec |-> "ir", error |-> "boom"]
    /\ pre[NB].cells[1].metadata = [tags |-> "t"]
    /\ ipynb_get_metadata(store, NB, Some(-1)).result
           = [tags |-> "t", kernelspec |-> "ir", error |-> "boom"]
    /\ ipynb_get_metadata(store, NB, None).result
           = [kernelspec |-> "ir", error |-> "boom", language_info |-> "python"]

(***************************************************************************)
(* C26: on success ipynb_delete_cells_batch reports cells_deleted equal to *)
(* the number of cells removed, the cell count before the call minus the   *)
(* reported new_cell_count, which is the cell count after the call; this   *)
(* holds for every accepted index list, lists that name one cell more than *)
(* once (a repeated index, a negative and a non-negative index of the same *)
(* cell) included.                                                         *)
(***************************************************************************)
C26_CellsDeletedIsCountRemoved ==
    (Succeeded /\ call.op = "ipynb_delete_cells_batch")
    =>
        /\ "error" \notin DOMAIN result
        /\ result.new_cell_count = Len(store[call.path].cells)
        /\ result.cells_deleted = Len(pre[call.path].cells) - result.new_cell_count

\* The list names the last of three cells twice, as 2 and as -1: the call is
\* accepted, reports two cells deleted and one cell left, and one cell is left.
C26_Witness ==
    /\ Succeeded
    /\ call.op = "ipynb_delete_cells_batch"
    /\ call.path = NB
    /\ call.cell_indices = <<2, -1>>
    /\ Len(pre[NB].cells) = 3
    /\ result = [success |-> TRUE, cells_deleted |-> 2, new_cell_count |-> 1]
    /\ Len(store[NB].cells) = 1

(***************************************************************************)
(* C27 (as claimed): for every list of paths, a list that repeats a path   *)
(* included, the counters ipynb_validate_notebooks_batch returns agree     *)
(* with its 'results' map: 'valid' is the number of entries whose valid is *)
(* true, 'invalid' the number of entries whose valid is false, and valid + *)
(* invalid = total.  The tool counts 'valid' over the entries of the map,  *)
(* which has one entry per distinct path, and computes 'total' and         *)
(* 'invalid' from the length of the list: when a valid notebook is listed  *)
(* twice, 'invalid' is 1 with no invalid entry in the map.                 *)
(***************************************************************************)
C27_CountersMatchResults ==
    (Called /\ call.op = "ipynb_validate_notebooks_batch" /\ "error" \notin DOMAIN result)
    =>
        /\ result.valid
               = Cardinality({p \in DOMAIN result.results : result.results[p].valid})
        /\ result.invalid
               = Cardinality({p \in DOMAIN result.results : ~result.results[p].valid})
        /\ result.valid + result.invalid = result.total

\* Both handlers have run a tool to its end in this round and both have written.
BothWrote == \A h \in Handlers : handlers[h].pc = "done" /\ handlers[h].wroteAt > 0

\* The handler whose write was the k-th of the round.
Writer(k) == CHOOSE h \in Handlers : handlers[h].wroteAt = k

(***************************************************************************)
(* C28: two mutating calls on the same path are not isolated from each     *)
(* other.  When both have loaded the document before either has written,   *)
(* the files after both are what the later writer's tool alone makes of    *)
(* the files the round started from: the earlier writer's change is lost.  *)
(* When the later writer loaded after the earlier one had written, the     *)
(* files are what the two tools make of them run one after the other: no   *)
(* change is lost.                                                         *)
(***************************************************************************)
C28_LastWriterWins ==
    BothWrote
    =>
        LET earlier == handlers[Writer(1)]
            later   == handlers[Writer(2)]
        IN  IF later.loadedAt = 0
            THEN /\ earlier.seen = pre[NB]
                 /\ later.seen = pre[NB]
                 /\ store = Invoke(pre, later.c).store
            ELSE store = Invoke(Invoke(pre, earlier.c).store, later.c).store

\* Two replacements, of the first and of the last of three cells, have both loaded
\* before either wrote: the last cell has its new content and the first cell is as
\* it was, although its replacement returned success.
C28_Witness ==
    /\ BothWrote
    /\ handlers[Writer(1)].c.op = "ipynb_replace_cell"
    /\ handlers[Writer(1)].c.cell_index = 0
    /\ handlers[Writer(1)].result = [success |-> TRUE]
    /\ handlers[Writer(2)].c.op = "ipynb_replace_cell"
    /\ handlers[Writer(2)].c.cell_index = -1
    /\ handlers[Writer(2)].loadedAt = 0
    /\ Len(pre[NB].cells) = 3
    /\ pre[NB].cells[1].source # <<"x">>
    /\ store[NB].cells[1] = pre[NB].cells[1]
    /\ store[NB].cells[3].source = <<"x">>

(***************************************************************************)
(* C29 (as claimed): the count a mutating tool reports describes its own   *)
(* write, also when another operation on the same path runs between the   *)
(* tool's mutation and the separate load it takes the number from:         *)
(* ipynb_insert_cell reports the cell count its operation loaded plus one, *)
(* ipynb_delete_cell that count minus one, and ipynb_append_cell reports   *)
(* the position at which its operation put the cell, the cell count it     *)
(* loaded.  The tools take the number from a load of their own, made after *)
(* the operation (insert, delete) or before it (append), and a write by    *)
(* another call in between changes it.                                     *)
(***************************************************************************)
C29_ReportedCountIsOwnWrite ==
    \A h \in Handlers :
        (handlers[h].pc = "done" /\ "error" \notin DOMAIN handlers[h].result)
        =>
            LET c == handlers[h].c
                loaded == Len(handlers[h].seen.cells)
            IN  /\ c.op = "ipynb_insert_cell" => handlers[h].result.new_cell_count = loaded + 1
                /\ c.op = "ipynb_delete_cell" => handlers[h].result.new_cell_count = loaded - 1
                /\ c.op = "ipynb_append_cell" => handlers[h].result.cell_index = loaded

QueryTools ==
    {"ipynb_read_notebook", "ipynb_list_cells", "ipynb_get_cell", "ipynb_search_cells",
     "ipynb_get_metadata", "ipynb_search_notebooks", "ipynb_validate_notebook",
     "ipynb_validate_notebooks_batch", "ipynb_get_notebook_info"}

(***************************************************************************)
(* C30: a call of a query tool (ipynb_read_notebook, ipynb_list_cells,     *)
(* ipynb_get_cell, ipynb_search_cells, ipynb_get_metadata,                 *)
(* ipynb_search_notebooks, ipynb_validate_notebook,                        *)
(* ipynb_validate_notebooks_batch, ipynb_get_notebook_info) leaves every   *)
(* file as it was, whether it succeeds or returns an error, and the same   *)
(* call made again on the files it left returns the same result and again  *)
(* changes nothing.                                                        *)
(***************************************************************************)
C30_QueriesChangeNothing ==
    (Called /\ call.op \in QueryTools)
    =>
        /\ store = pre
        /\ Invoke(store, call).result = result
        /\ Invoke(store, call).store = store

\* A notebook whose outputs have been cleared has been listed: the listing shows
\* the code cell without an execution count and the file is as it was before the
\* call.
C30_Witness ==
    /\ Called
    /\ call.op = "ipynb_list_cells"
    /\ call.path = NB
    /\ "error" \notin DOMAIN result
    /\ Len(result.cells) = 3
    /\ result.cells[1] = [index |-> 0, type |-> "code", preview |-> <<"b">>,
                          execution_count |-> None]
    /\ store = pre
    /\ store[NB2].cells[1].outputs # <<>>

====
